---- MODULE Spec2Model ----
(***************************************************************************)
(* Key exchange, session-key derivation and replay-protected message       *)
(* relay of the end-to-end encrypted messaging application.                *)
(*                                                                         *)
(* Server side : routes/keyExchange.js (initiate, respond, confirm,        *)
(*               pending, fetch), routes/messages.js (send), the           *)
(*               KeyExchange and Message mongoose models.                  *)
(* Client side : the Chat component (checkKeyExchange, startKeyExchange,   *)
(*               completeKeyExchange, establishSessionKey), the            *)
(*               keyExchange utilities and the Web-Crypto wrappers.        *)
(*                                                                         *)
(* Time is counted in minutes.  Every asynchronous function of the client  *)
(* is cut at its awaits on the network, every server handler at its awaits *)
(* on the database, so that requests of different runs interleave as they  *)
(* can on the event loops of the browser and of the server.                *)
(***************************************************************************)
EXTENDS Integers, Sequences, FiniteSets, TLC

VARIABLES
    now,            \* wall clock, minutes
    kxStore,        \* KeyExchange collection, in creation order; _id = index
    kxDeleted,      \* _ids removed by the TTL index on expiresAt
    localStorage,   \* browser localStorage: <<user, peer>> -> keyExchange_<peer> entry
    runs,           \* mounts of the Chat component, each with its async run
    rawLog,         \* the hand-made requests sent so far, with their outcome
    msgStore,       \* Message collection, in insertion order
    sendReqs,       \* POST /messages/send requests, each with its position
    drv,            \* one pair of independent session-key derivations
    auditLog,       \* AuditLog collection
    auditUp,        \* whether AuditLog.create succeeds at this moment
    dec,            \* decryptAndDisplayMessage calls of the Chat client
    gcm,            \* one application of encryptMessage / decryptMessage
    sgn,            \* one application of signData / verifySignature
    keys,           \* private keys of the clients, requests sent, User and KeyExchange documents
    rt,             \* one exchange between two Chat clients, with the clock readings of its steps
    conv,           \* the ciphertexts sent to the Chat client, each with the key it was made with
    chat,           \* the message state of one Chat client, the requests it posted, the conversation
    kc              \* one key confirmation: generated by one side, verified by the other

vars == <<now, kxStore, kxDeleted, localStorage, runs, rawLog, msgStore, sendReqs, drv,
          auditLog, auditUp, dec, gcm, sgn, keys, rt, conv, chat, kc>>

kxVars == <<now, kxStore, kxDeleted, localStorage, runs, rawLog>>
msgVars == <<msgStore, sendReqs>>
restOfKx == <<msgStore, sendReqs, drv, auditUp, dec, gcm, sgn, keys, rt, conv, chat, kc>>
restOfMsg == <<kxVars, drv, auditUp, dec, gcm, sgn, keys, rt, conv, chat, kc>>

----------------------------------------------------------------------------
(* Bounds *)

MaxTime == 6
MaxExchanges == 2
MaxRuns == 3
MaxRaw == 2
MaxSends == 2
MaxKeyPairs == 4

----------------------------------------------------------------------------
(* Users.  The directory knows u1, u2, u3; "u9" is an id that is not       *)
(* registered.  The login response carries {id, username, publicKey}, so   *)
(* user._id is undefined on the client.                                    *)

Users == {"u1", "u2", "u3"}
UnknownUser == "u9"

\* a text that is not the text of an ObjectId (24 hexadecimal digits)
MalformedId == "abc"
IsObjectId(id) == id \in Users \cup {UnknownUser}
Undefined == "undefined"

username(u) == CASE u = "u1" -> "alice" [] u = "u2" -> "bob" [] u = "u3" -> "carol" [] OTHER -> Undefined

user_id(u) == u
user__id(u) == Undefined

----------------------------------------------------------------------------
(* Web-Crypto wrappers (utils/crypto.js).                                  *)
(* ECDH is computed in the cyclic group generated by GroupG modulo the     *)
(* prime GroupP; the k-th generated private key is the k-th prime, so that *)
(* distinct pairs of key pairs have distinct shared secrets.               *)

GroupP == 1009
GroupG == 11
Primes == <<2, 3, 5, 7, 11, 13, 17, 19, 23, 29>>

RECURSIVE ModExp(_, _)
ModExp(b, e) == IF e = 0 THEN 1 ELSE (b * ModExp(b, e - 1)) % GroupP

importECCPrivateKey(k) == Primes[k]
importECCPublicKey(pk) == pk

PublicKeyOf(k) == ModExp(GroupG, importECCPrivateKey(k))

performECDH(myPrivateKey, theirPublicKey) == ModExp(theirPublicKey, myPrivateKey)

deriveKey(sharedSecret, salt, info) == [ikm |-> sharedSecret, salt |-> salt, info |-> info]

NoSessionKey == [ikm |-> 0, salt |-> <<>>, info |-> <<>>]

----------------------------------------------------------------------------
(* utils/crypto.js: the conversions.  A JavaScript string is the sequence  *)
(* of its UTF-16 code units, an ArrayBuffer the sequence of its bytes, a   *)
(* base64 text the sequence of the values of its characters: 0..63 for the *)
(* alphabet, Pad for "=", Space for white space.                           *)

Pad == 64
Space == 65
Replacement == 65533
ByteOrderMark == 65279

\* what a function that may throw gives back
Threw == [ok |-> FALSE, value |-> <<>>]
Returned(v) == [ok |-> TRUE, value |-> v]

IsHighSurrogate(c) == c >= 55296 /\ c <= 56319
IsLowSurrogate(c) == c >= 56320 /\ c <= 57343
IsContinuation(b) == b >= 128 /\ b <= 191

\* new TextEncoder().encode(str): UTF-8, a surrogate without its partner is
\* encoded as U+FFFD
RECURSIVE stringToArrayBuffer(_)
stringToArrayBuffer(str) ==
    IF str = <<>> THEN <<>>
    ELSE LET c == Head(str)
         IN  IF c < 128 THEN <<c>> \o stringToArrayBuffer(Tail(str))
             ELSE IF c < 2048
                  THEN <<192 + (c \div 64), 128 + (c % 64)>> \o stringToArrayBuffer(Tail(str))
             ELSE IF IsHighSurrogate(c) /\ Len(str) >= 2 /\ IsLowSurrogate(str[2])
                  THEN LET cp == 65536 + (c - 55296) * 1024 + (str[2] - 56320)
                       IN  <<240 + (cp \div 262144), 128 + ((cp \div 4096) % 64),
                             128 + ((cp \div 64) % 64), 128 + (cp % 64)>>
                           \o stringToArrayBuffer(Tail(Tail(str)))
             ELSE LET u == IF IsHighSurrogate(c) \/ IsLowSurrogate(c) THEN Replacement ELSE c
                  IN  <<224 + (u \div 4096), 128 + ((u \div 64) % 64), 128 + (u % 64)>>
                      \o stringToArrayBuffer(Tail(str))

\* UTF-8 decoding of TextDecoder: a malformed sequence gives U+FFFD
RECURSIVE utf8Decode(_)
utf8Decode(b) ==
    IF b = <<>> THEN <<>>
    ELSE LET b1 == b[1]
             n == Len(b)
         IN  IF b1 < 128 THEN <<b1>> \o utf8Decode(Tail(b))
             ELSE IF b1 >= 194 /\ b1 <= 223 /\ n >= 2 /\ IsContinuation(b[2])
                  THEN <<(b1 - 192) * 64 + (b[2] - 128)>> \o utf8Decode(SubSeq(b, 3, n))
             ELSE IF /\ b1 >= 224 /\ b1 <= 239 /\ n >= 3 /\ IsContinuation(b[2]) /\ IsContinuation(b[3])
                     /\ (b1 = 224 => b[2] >= 160) /\ (b1 = 237 => b[2] <= 159)
                  THEN <<(b1 - 224) * 4096 + (b[2] - 128) * 64 + (b[3] - 128)>> \o utf8Decode(SubSeq(b, 4, n))
             ELSE IF /\ b1 >= 240 /\ b1 <= 244 /\ n >= 4
                     /\ IsContinuation(b[2]) /\ IsContinuation(b[3]) /\ IsContinuation(b[4])
                     /\ (b1 = 240 => b[2] >= 144) /\ (b1 = 244 => b[2] <= 143)
                  THEN LET cp == (b1 - 240) * 262144 + (b[2] - 128) * 4096 + (b[3] - 128) * 64 + (b[4] - 128)
                       IN  <<55296 + ((cp - 65536) \div 1024), 56320 + ((cp - 65536) % 1024)>>
                           \o utf8Decode(SubSeq(b, 5, n))
             ELSE <<Replacement>> \o utf8Decode(Tail(b))

\* new TextDecoder().decode(buffer): a byte order mark at the start is dropped
arrayBufferToString(buffer) ==
    LET str == utf8Decode(buffer)
    IN  IF str # <<>> /\ Head(str) = ByteOrderMark THEN Tail(str) ELSE str

\* btoa of the bytes taken as characters
RECURSIVE arrayBufferToBase64(_)
arrayBufferToBase64(buffer) ==
    LET n == Len(buffer)
    IN  IF n = 0 THEN <<>>
        ELSE IF n = 1
             THEN <<buffer[1] \div 4, (buffer[1] % 4) * 16, Pad, Pad>>
        ELSE IF n = 2
             THEN <<buffer[1] \div 4, (buffer[1] % 4) * 16 + (buffer[2] \div 16), (buffer[2] % 16) * 4, Pad>>
        ELSE <<buffer[1] \div 4, (buffer[1] % 4) * 16 + (buffer[2] \div 16),
               (buffer[2] % 16) * 4 + (buffer[3] \div 64), buffer[3] % 64>>
             \o arrayBufferToBase64(SubSeq(buffer, 4, n))

RECURSIVE sextetsToBytes(_)
sextetsToBytes(t) ==
    LET n == Len(t)
    IN  IF n < 2 THEN <<>>
        ELSE IF n = 2 THEN <<t[1] * 4 + (t[2] \div 16)>>
        ELSE IF n = 3 THEN <<t[1] * 4 + (t[2] \div 16), (t[2] % 16) * 16 + (t[3] \div 4)>>
        ELSE <<t[1] * 4 + (t[2] \div 16), (t[2] % 16) * 16 + (t[3] \div 4), (t[3] % 4) * 64 + t[4]>>
             \o sextetsToBytes(SubSeq(t, 5, n))

\* atob (forgiving base64 decode): white space is removed, one or two "=" at
\* the end of a text whose length is a multiple of 4 are removed, a length of
\* 1 modulo 4 or a character outside the alphabet throws, and the bits left
\* over in the last character are discarded
base64ToArrayBuffer(base64) ==
    LET t == SelectSeq(base64, LAMBDA c : c # Space)
        n == Len(t)
        u == IF n % 4 = 0 /\ n >= 2 /\ t[n] = Pad /\ t[n - 1] = Pad THEN SubSeq(t, 1, n - 2)
             ELSE IF n % 4 = 0 /\ n >= 1 /\ t[n] = Pad THEN SubSeq(t, 1, n - 1)
             ELSE t
    IN  IF Len(u) % 4 = 1 \/ \E i \in 1..Len(u) : u[i] > 63 THEN Threw
        ELSE Returned(sextetsToBytes(u))

----------------------------------------------------------------------------
(* utils/crypto.js: AES-GCM.  crypto.subtle.encrypt returns the ciphertext *)
(* followed by a tag of TagLength bytes.  The tag is a function of key, iv *)
(* and ciphertext that takes different values on the different inputs of   *)
(* the model; crypto.subtle.decrypt recomputes it and throws on a mismatch. *)

TagLength == 16

RECURSIVE Fold(_, _)
Fold(bytes, w) == IF bytes = <<>> THEN 0 ELSE (Head(bytes) * w + Fold(Tail(bytes), w + 2)) % 251

KeyStream(key, iv, i) == (key * 31 + Fold(iv, 1) * 17 + i * 7) % 256

PadTo(bytes, n) == [i \in 1..n |-> IF i <= Len(bytes) THEN bytes[i] ELSE 0]

GcmTag(key, iv, ct) ==
    <<key % 256, Len(iv) % 256, Fold(iv, 1), Fold(iv, 2), Len(ct) % 256, Fold(ct, 1), Fold(ct, 2)>>
    \o PadTo(ct, TagLength - 7)

subtleEncrypt(key, iv, plaintextBuffer) ==
    LET ct == [i \in 1..Len(plaintextBuffer) |-> (plaintextBuffer[i] + KeyStream(key, iv, i)) % 256]
    IN  ct \o GcmTag(key, iv, ct)

subtleDecrypt_noTagCheck(key, iv, data) ==
    LET n == Len(data)
        ct == SubSeq(data, 1, n - TagLength)
    IN  IF n < TagLength THEN Threw
        ELSE Returned([i \in 1..Len(ct) |-> (ct[i] + 256 - KeyStream(key, iv, i)) % 256])

subtleDecrypt(key, iv, data) ==
    LET n == Len(data)
        ct == SubSeq(data, 1, n - TagLength)
        tag == SubSeq(data, n - TagLength + 1, n)
    IN  IF n < TagLength THEN Threw
        ELSE IF tag # GcmTag(key, iv, ct) THEN Threw
        ELSE Returned([i \in 1..Len(ct) |-> (ct[i] + 256 - KeyStream(key, iv, i)) % 256])

\* encryptMessage, with the iv that getRandomValues gave
encryptMessage(plaintext, key, iv) ==
    LET encryptedArray == subtleEncrypt(key, iv, stringToArrayBuffer(plaintext))
        n == Len(encryptedArray)
        authTag == SubSeq(encryptedArray, n - TagLength + 1, n)
        ciphertext == SubSeq(encryptedArray, 1, n - TagLength)
    IN  [ciphertext |-> arrayBufferToBase64(ciphertext),
         iv |-> arrayBufferToBase64(iv),
         authTag |-> arrayBufferToBase64(authTag)]

decryptMessage_tagFirst(encryptedData, key) ==
    LET ciphertextBuffer == base64ToArrayBuffer(encryptedData.ciphertext)
        authTagBuffer == base64ToArrayBuffer(encryptedData.authTag)
        ivBuffer == base64ToArrayBuffer(encryptedData.iv)
        decrypted == subtleDecrypt(key, ivBuffer.value, authTagBuffer.value \o ciphertextBuffer.value)
    IN  IF ~ciphertextBuffer.ok \/ ~authTagBuffer.ok \/ ~ivBuffer.ok THEN Threw
        ELSE IF ~decrypted.ok THEN Threw
        ELSE Returned(arrayBufferToString(decrypted.value))

\* decryptMessage: the plaintext, or the Error('Decryption failed: ...') that
\* its catch throws for whatever was thrown inside
decryptMessage(encryptedData, key) ==
    LET ciphertextBuffer == base64ToArrayBuffer(encryptedData.ciphertext)
        authTagBuffer == base64ToArrayBuffer(encryptedData.authTag)
        ivBuffer == base64ToArrayBuffer(encryptedData.iv)
        combined == ciphertextBuffer.value \o authTagBuffer.value
        decrypted == subtleDecrypt(key, ivBuffer.value, combined)
    IN  IF ~ciphertextBuffer.ok \/ ~authTagBuffer.ok \/ ~ivBuffer.ok THEN Threw
        ELSE IF ~decrypted.ok THEN Threw
        ELSE Returned(arrayBufferToString(decrypted.value))

----------------------------------------------------------------------------
(* utils/crypto.js: RSASSA-PKCS1-v1_5.  A long-term key pair is named by   *)
(* its owner: the exported private key and the exported public key of u    *)
(* are both written u.  The signature bytes are the number of the key, the *)
(* length of the data and the data, filled with zeros to a length of 1     *)
(* modulo 3 (as the 256 bytes of an RSA-2048 signature are), so that       *)
(* different (key, data) have different signatures.                        *)

\* no signature: null, or the empty string
NoSignature == <<>>

\* the code units of the identifiers that appear in signed data
CodeUnitsOf(str) ==
    CASE str = "u1" -> <<117, 49>>
      [] str = "u2" -> <<117, 50>>
      [] str = "u3" -> <<117, 51>>
      [] str = "u9" -> <<117, 57>>
      [] str = "alice" -> <<97, 108, 105, 99, 101>>
      [] str = "bob" -> <<98, 111, 98>>
      [] str = "carol" -> <<99, 97, 114, 111, 108>>
      [] OTHER -> <<117, 110, 100, 101, 102, 105, 110, 101, 100>>

\* String(n) of a non-negative integer
RECURSIVE Decimal(_)
Decimal(n) == IF n < 10 THEN <<48 + n>> ELSE Decimal(n \div 10) \o <<48 + (n % 10)>>

\* `${recipient}:${publicKey}:${timestamp}`
messageToSign(recipient, publicKey, timestamp) ==
    CodeUnitsOf(recipient) \o <<58>> \o Decimal(publicKey) \o <<58>> \o Decimal(timestamp)

\* the keys crypto.subtle.importKey accepts: those of the users, and the key
\* pair of somebody who is not in the directory
KeyOwners == Users \cup {UnknownUser}

KeyNumber(owner) ==
    CASE owner = "u1" -> 1 [] owner = "u2" -> 2 [] owner = "u3" -> 3 [] OTHER -> 9

subtleSign(privateKey, dataBuffer) ==
    LET body == <<KeyNumber(privateKey), Len(dataBuffer) % 256>> \o dataBuffer
    IN  PadTo(body, Len(body) + ((4 - (Len(body) % 3)) % 3))

subtleVerify(publicKey, signatureBuffer, dataBuffer) ==
    signatureBuffer = subtleSign(publicKey, dataBuffer)

\* signData with a private key that imports
signData(data, privateKey) == arrayBufferToBase64(subtleSign(privateKey, stringToArrayBuffer(data)))

\* verifySignature, the body of its try: what it returns, unless atob or
\* importKey throws
verifySignatureTry(data, signature, publicKey) ==
    LET dataBuffer == stringToArrayBuffer(data)
        signatureBuffer == base64ToArrayBuffer(signature)
    IN  IF ~signatureBuffer.ok THEN Threw
        ELSE IF publicKey \notin KeyOwners THEN Threw
        ELSE Returned(subtleVerify(publicKey, signatureBuffer.value, dataBuffer))

verifySignature_noCatch(data, signature, publicKey) == verifySignatureTry(data, signature, publicKey)

\* verifySignature, as its caller sees it: the catch returns false
verifySignature(data, signature, publicKey) ==
    LET isValid == verifySignatureTry(data, signature, publicKey)
    IN  IF isValid.ok THEN isValid ELSE Returned(FALSE)

----------------------------------------------------------------------------
(* utils/crypto.js: exported keys.  generateRSAKeyPair and generateECCKeyPair *)
(* export the public key as SubjectPublicKeyInfo and the private key as       *)
(* PKCS#8.  The text of an exported key is written as the sequence of the     *)
(* parts of its structure: PKCS#8 begins with its version, then comes the     *)
(* algorithm, then the key; SubjectPublicKeyInfo begins with the algorithm.   *)
(* Every text that travels or is stored is a sequence of integers; null and   *)
(* the empty string are NoText.                                               *)

NoText == <<>>

Pkcs8Version == 0
RsaAlgorithm == 1001
EcdhAlgorithm == 1002

\* exportKey('spki', keyPair.publicKey), exportKey('pkcs8', keyPair.privateKey)
RsaSpki(owner) == <<RsaAlgorithm, KeyNumber(owner)>>
RsaPkcs8(owner) == <<Pkcs8Version, RsaAlgorithm, KeyNumber(owner)>>
EccSpki(k) == <<EcdhAlgorithm>> \o Decimal(PublicKeyOf(k))
EccPkcs8(k) == <<Pkcs8Version, EcdhAlgorithm>> \o Decimal(importECCPrivateKey(k))

generateRSAKeyPair(owner) ==
    [publicKey |-> RsaSpki(owner), privateKey |-> RsaPkcs8(owner), keyPair |-> owner]

generateECCKeyPair(k) ==
    [publicKey |-> EccSpki(k), privateKey |-> EccPkcs8(k), keyPair |-> k]

\* importKey('pkcs8', ...) of signData: the key pair the text is the private key of
importSigningKey(privateKey) == CHOOSE owner \in KeyOwners : RsaPkcs8(owner) = privateKey

\* every private key a client can generate, as exported text
PrivateKeyTexts ==
    {RsaPkcs8(owner) : owner \in KeyOwners} \cup {EccPkcs8(k) : k \in 1..Len(Primes)}

\* the two users who register and exchange keys
KeyUsers == {"u1", "u2"}

\* no key stored in any browser, nothing sent, nothing stored on the server
NoKeys ==
    [indexedDB |-> [u \in KeyUsers |-> NoText], ecdhStored |-> [u \in KeyUsers |-> NoText],
     generated |-> 0, requests |-> <<>>, users |-> <<>>, exchanges |-> <<>>]

\* no exchange followed step by step
NoRoundTrip == [pc |-> "none"]

\* no key confirmation is under way
NoConfirmation == [pc |-> "none"]

\* no Chat component has been mounted, nothing was posted, nothing is stored
NoChat ==
    [mounts |-> 0, mounted |-> FALSE, loading |-> FALSE, loaded |-> FALSE, messages |-> <<>>, sequenceNumber |-> 0,
     sessionKey |-> NoSessionKey, error |-> "", calls |-> 0, posts |-> <<>>, conversation |-> <<>>]

----------------------------------------------------------------------------
(* utils/keyExchange.js *)

deriveSessionKey_ownInfo(myECDHPrivateKey, theirECDHPublicKey, initiatorId, responderId) ==
    deriveKey(performECDH(importECCPrivateKey(myECDHPrivateKey), importECCPublicKey(theirECDHPublicKey)),
              <<>>, <<PublicKeyOf(myECDHPrivateKey), initiatorId, responderId, "session-key">>)

deriveSessionKey(myECDHPrivateKey, theirECDHPublicKey, initiatorId, responderId) ==
    deriveKey(performECDH(importECCPrivateKey(myECDHPrivateKey), importECCPublicKey(theirECDHPublicKey)),
              <<>>, <<initiatorId, responderId, "session-key">>)

initiateKeyExchange(responderId, myPrivateKey, k, timestamp) ==
    [initiatorPublicKey |-> PublicKeyOf(k),
     initiatorSignature |-> signData(messageToSign(responderId, PublicKeyOf(k), timestamp), myPrivateKey),
     ecdhKeyPair |-> k]

respondToKeyExchange(initiatorPublicKey, initiatorSignature, initiatorUsername, myPrivateKey, k, timestamp) ==
    [responderPublicKey |-> PublicKeyOf(k),
     responderSignature |-> signData(messageToSign(initiatorUsername, PublicKeyOf(k), timestamp), myPrivateKey),
     ecdhKeyPair |-> k]

\* crypto.subtle.digest('SHA-256', ...): a function of the bytes that takes
\* different values on the different inputs of the model
subtleDigest(dataBuffer) ==
    <<Len(dataBuffer) % 256, Fold(dataBuffer, 1), Fold(dataBuffer, 2), Fold(dataBuffer, 3)>>

\* hashData
hashData(data) == arrayBufferToBase64(subtleDigest(stringToArrayBuffer(data)))

\* generateKeyConfirmation, with the value Date.now() gave (milliseconds): the
\* HMAC is computed with a key of 32 zero bytes and its result is dropped; the
\* function returns the hash
generateKeyConfirmation(sessionKey, myUsername, theirUsername, dateNow) ==
    hashData(CodeUnitsOf(myUsername) \o <<58>> \o CodeUnitsOf(theirUsername) \o <<58>> \o Decimal(dateNow))

\* verifyKeyConfirmation, with the value Date.now() gives inside it
verifyKeyConfirmation(confirmation, sessionKey, myUsername, theirUsername, dateNow) ==
    confirmation = generateKeyConfirmation(sessionKey, theirUsername, myUsername, dateNow)

----------------------------------------------------------------------------
(* models/KeyExchange.js *)

TTL == 5

NoExchange ==
    [id |-> 0, initiatorId |-> "", responderId |-> "", initiatorPublicKey |-> 0,
     initiatorSignature |-> NoSignature, responderPublicKey |-> 0,
     responderSignature |-> NoSignature, keyConfirmation |-> 0, status |-> "none",
     timestamp |-> 0, expiresAt |-> 0, populated |-> FALSE]

NewKeyExchange(id, initiatorId, responderId, initiatorPublicKey, initiatorSignature) ==
    [id |-> id, initiatorId |-> initiatorId, responderId |-> responderId,
     initiatorPublicKey |-> initiatorPublicKey, initiatorSignature |-> initiatorSignature,
     responderPublicKey |-> 0, responderSignature |-> NoSignature, keyConfirmation |-> 0,
     status |-> "pending", timestamp |-> now, expiresAt |-> now + TTL, populated |-> FALSE]

KxIds == {i \in 1..Len(kxStore) : i \notin kxDeleted}

findById(id) == IF id \in KxIds THEN kxStore[id] ELSE NoExchange

populate(e) == [e EXCEPT !.populated = TRUE]

\* ex.initiatorId._id : the id of a populated reference, undefined on a plain id string
dot_id(e, ref) == IF e.populated THEN ref ELSE Undefined

\* ex.initiatorId.username
dot_username(e, ref) == IF e.populated THEN username(ref) ELSE Undefined

----------------------------------------------------------------------------
(* models/AuditLog.js.  A record is kept with the request or record it is  *)
(* about (ref).  AuditLog.create resolves when the collection can be       *)
(* written and rejects otherwise.                                          *)

AuditEntry(eventType, userId, severity, ref) ==
    [eventType |-> eventType, userId |-> userId, severity |-> severity, ref |-> ref]

AuditLogCreate(entry) == IF auditUp THEN auditLog \cup {entry} ELSE auditLog

\* the answer of a handler that awaits AuditLog.create before it responds: the
\* rejection of the create is caught by the handler's catch, which answers 500
Reply(status, audited) == IF audited /\ ~auditUp THEN 500 ELSE status

----------------------------------------------------------------------------
(* routes/keyExchange.js *)

\* POST /initiate : status code
\* User.findById(responderId) rejects (CastError) when responderId cannot be
\* cast to an ObjectId; the catch answers 500
InitiateStatus(responderId, initiatorPublicKey, initiatorSignature) ==
    IF responderId = "" \/ initiatorPublicKey = 0 \/ initiatorSignature = NoSignature THEN 400
    ELSE IF ~IsObjectId(responderId) THEN 500
    ELSE IF responderId \notin Users THEN 404
    ELSE 201

\* POST /respond : the checks between findById and save
RespondStatus_noResponderCheck(keyExchangeId, e, caller, responderPublicKey, responderSignature) ==
    IF keyExchangeId = 0 \/ responderPublicKey = 0 \/ responderSignature = NoSignature THEN 400
    ELSE IF e.status = "none" THEN 404
    ELSE IF e.status # "pending" THEN 400
    ELSE 200

RespondStatus_noStatusCheck(keyExchangeId, e, caller, responderPublicKey, responderSignature) ==
    IF keyExchangeId = 0 \/ responderPublicKey = 0 \/ responderSignature = NoSignature THEN 400
    ELSE IF e.status = "none" THEN 404
    ELSE IF e.responderId # caller THEN 403
    ELSE 200

RespondStatus(keyExchangeId, e, caller, responderPublicKey, responderSignature) ==
    IF keyExchangeId = 0 \/ responderPublicKey = 0 \/ responderSignature = NoSignature THEN 400
    ELSE IF e.status = "none" THEN 404
    ELSE IF e.responderId # caller THEN 403
    ELSE IF e.status # "pending" THEN 400
    ELSE 200

\* POST /respond : the fields keyExchange.save() writes
RespondUpdate_initiatorSignature(e, responderPublicKey, responderSignature) ==
    [e EXCEPT !.initiatorSignature = responderSignature,
              !.responderPublicKey = responderPublicKey,
              !.responderSignature = responderSignature,
              !.status = "completed"]

RespondUpdate(e, responderPublicKey, responderSignature) ==
    [e EXCEPT !.responderPublicKey = responderPublicKey,
              !.responderSignature = responderSignature,
              !.status = "completed"]

\* keyExchange.save() of a loaded document: the modified paths are written to the
\* stored document with that _id; a document the TTL index removed is not found (500)
SaveRespond(id, responderPublicKey, responderSignature) ==
    IF id \in KxIds
    THEN [kxStore EXCEPT ![id] = RespondUpdate(@, responderPublicKey, responderSignature)]
    ELSE kxStore

\* GET /pending : the caller's records that are not expired, newest first.
\* timestamp is Date.now() at creation, so creation order is timestamp order.
PendingFilter_noExpiry(u) ==
    {i \in KxIds : /\ kxStore[i].initiatorId = u \/ kxStore[i].responderId = u
                   /\ kxStore[i].status \in {"pending", "completed"}}

PendingFilter(u) ==
    {i \in KxIds : /\ kxStore[i].initiatorId = u \/ kxStore[i].responderId = u
                   /\ kxStore[i].status \in {"pending", "completed"}
                   /\ kxStore[i].expiresAt > now}

Newest(S) == CHOOSE m \in S : \A i \in S : i <= m

RECURSIVE NewestFirst(_)
NewestFirst(S) == IF S = {} THEN <<>> ELSE <<populate(kxStore[Newest(S)])>> \o NewestFirst(S \ {Newest(S)})

Pending(u) == NewestFirst(PendingFilter(u))

----------------------------------------------------------------------------
(* components/Chat.js : state of one mount of the component and of its run *)

NoStored == [ecdhPrivateKey |-> 0, keyExchangeId |-> 0, isInitiator |-> FALSE]

NewRun(u, p) ==
    [user |-> u, peer |-> p, pc |-> "checkKeyExchange", kx |-> NoExchange,
     ecdh |-> 0, sig |-> NoSignature, respStatus |-> 0, respAt |-> 0,
     sessionKey |-> NoSessionKey, keyExchangeStatus |-> "idle", error |-> "", mounted |-> TRUE]

RunIds == 1..Len(runs)

\* the mounted Chat component of a user is the one opened last (0: none); the
\* state of an unmounted component is gone and its setters have no effect
Current(u) == IF \E r \in RunIds : runs[r].user = u
              THEN CHOOSE r \in RunIds : runs[r].user = u /\ \A q \in RunIds : runs[q].user = u => q <= r
              ELSE 0

Unmount(run) == [run EXCEPT !.sessionKey = NoSessionKey, !.keyExchangeStatus = "idle", !.error = "", !.mounted = FALSE]

\* what is left of a run when its async function has returned: the locals are
\* dropped, the component state and the outcome of its requests stay
Settle(run) ==
    LET kept == IF run.pc = "done"
                THEN [run EXCEPT !.kx = [NoExchange EXCEPT !.id = run.kx.id], !.sig = NoSignature]
                ELSE run
    IN  IF run.mounted THEN kept
        ELSE [kept EXCEPT !.sessionKey = NoSessionKey, !.keyExchangeStatus = "idle", !.error = ""]

SetRun(r, new) == runs' = [runs EXCEPT ![r] = Settle(new)]

\* useEffect on [userId] of a fresh mount: checkKeyExchange() starts.  The run of
\* an earlier mount is not cancelled; it goes on to its end.
OpenChat(u, p) ==
    /\ u # p
    /\ Len(runs) < MaxRuns
    /\ runs' = Append([r \in RunIds |-> IF runs[r].user = u THEN Unmount(runs[r]) ELSE runs[r]], NewRun(u, p))
    /\ UNCHANGED <<now, kxStore, kxDeleted, localStorage, rawLog, auditLog, restOfKx>>

\* checkKeyExchange: the record of GET /pending that involves the peer and the user
InvolvesBoth(ex, u, p) ==
    /\ ex.initiatorId = p \/ ex.responderId = p
    /\ ex.initiatorId = u \/ ex.responderId = u

CheckBranch(pending, u) ==
    IF pending.status = "none" THEN "startKeyExchange"
    ELSE IF pending.status = "pending"
         THEN IF pending.responderId = user_id(u) /\ pending.responderPublicKey = 0
              THEN "completeKeyExchange"
              ELSE IF pending.responderId # user_id(u) /\ pending.responderPublicKey # 0
                   THEN "establishSessionKey"
                   ELSE "done"
         ELSE IF pending.status = "completed" THEN "establishSessionKey" ELSE "done"

CheckKeyExchange(r) ==
    /\ runs[r].pc = "checkKeyExchange"
    /\ LET u == runs[r].user
           found == SelectSeq(Pending(u), LAMBDA ex : InvolvesBoth(ex, u, runs[r].peer))
           pending == IF found = <<>> THEN NoExchange ELSE Head(found)
       IN  SetRun(r, [runs[r] EXCEPT
               !.pc = CheckBranch(pending, u),
               !.kx = pending,
               !.keyExchangeStatus = IF pending.status = "pending" THEN "pending" ELSE @])
    /\ UNCHANGED <<now, kxStore, kxDeleted, localStorage, rawLog, auditLog, restOfKx>>

\* checkKeyExchange, catch: GET /pending got no response
CheckKeyExchangeFailed(r) ==
    /\ runs[r].pc = "checkKeyExchange"
    /\ SetRun(r, [runs[r] EXCEPT !.pc = "startKeyExchange"])
    /\ UNCHANGED <<now, kxStore, kxDeleted, localStorage, rawLog, auditLog, restOfKx>>

\* startKeyExchange up to the response of POST /initiate: a fresh ECDH key pair,
\* signed for the peer, and the record the server creates for it
StartKeyExchange(r) ==
    /\ runs[r].pc = "startKeyExchange"
    /\ Len(kxStore) < MaxExchanges
    /\ LET u == runs[r].user
           p == runs[r].peer
           k == r
           keyExchangeData == initiateKeyExchange(p, u, k, now)
           id == Len(kxStore) + 1
           status == InitiateStatus(p, keyExchangeData.initiatorPublicKey, keyExchangeData.initiatorSignature)
       IN  /\ kxStore' = IF status = 201
                         THEN Append(kxStore, NewKeyExchange(id, u, p,
                                  keyExchangeData.initiatorPublicKey, keyExchangeData.initiatorSignature))
                         ELSE kxStore
           /\ auditLog' = IF status = 201
                          THEN AuditLogCreate(AuditEntry("KEY_EXCHANGE_INITIATED", u, "INFO", id))
                          ELSE auditLog
           /\ IF Reply(status, status = 201) = 201
              THEN SetRun(r, [runs[r] EXCEPT !.pc = "startKeyExchange_store", !.ecdh = k,
                                  !.kx = kxStore'[id], !.keyExchangeStatus = "pending", !.error = ""])
              ELSE SetRun(r, [runs[r] EXCEPT !.pc = "done", !.ecdh = k, !.keyExchangeStatus = "idle",
                                  !.error = "Failed to initiate key exchange"])
    /\ UNCHANGED <<now, kxDeleted, localStorage, rawLog, restOfKx>>

\* startKeyExchange after the response: the private key goes to localStorage
StartKeyExchangeStore(r) ==
    /\ runs[r].pc = "startKeyExchange_store"
    /\ localStorage' = [localStorage EXCEPT ![<<runs[r].user, runs[r].peer>>] =
                           [ecdhPrivateKey |-> runs[r].ecdh, keyExchangeId |-> runs[r].kx.id, isInitiator |-> TRUE]]
    /\ SetRun(r, [runs[r] EXCEPT !.pc = "done"])
    /\ UNCHANGED <<now, kxStore, kxDeleted, rawLog, auditLog, restOfKx>>

\* completeKeyExchange up to POST /respond: respondToKeyExchange makes the
\* responder's key pair and signature (the initiator's signature is not checked),
\* and the private key goes to localStorage
CompleteKeyExchange(r) ==
    /\ runs[r].pc = "completeKeyExchange"
    /\ LET u == runs[r].user
           keyExchange == runs[r].kx
           k == r
           responseData == respondToKeyExchange(keyExchange.initiatorPublicKey, keyExchange.initiatorSignature,
                               dot_username(keyExchange, keyExchange.initiatorId), u, k, now)
       IN  /\ localStorage' = [localStorage EXCEPT ![<<u, runs[r].peer>>] =
                                  [ecdhPrivateKey |-> k, keyExchangeId |-> 0, isInitiator |-> FALSE]]
           /\ SetRun(r, [runs[r] EXCEPT !.pc = "respond", !.ecdh = k, !.sig = responseData.responderSignature,
                             !.keyExchangeStatus = "initiating"])
    /\ UNCHANGED <<now, kxStore, kxDeleted, rawLog, auditLog, restOfKx>>

\* POST /respond, from the arrival of the request to the checks after findById
RespondFind(r) ==
    /\ runs[r].pc = "respond"
    /\ LET status == RespondStatus(runs[r].kx.id, findById(runs[r].kx.id), runs[r].user,
                                   PublicKeyOf(runs[r].ecdh), runs[r].sig)
       IN  /\ auditLog' = IF status = 403
                          THEN AuditLogCreate(AuditEntry("KEY_EXCHANGE_FAILED", runs[r].user, "WARNING", runs[r].kx.id))
                          ELSE auditLog
           /\ SetRun(r, [runs[r] EXCEPT
                  !.pc = IF status = 200 THEN "respond_save" ELSE "done",
                  !.respStatus = IF status = 200 THEN 0 ELSE Reply(status, status = 403),
                  !.respAt = now,
                  !.error = IF status = 200 THEN @ ELSE "Failed to complete key exchange"])
    /\ UNCHANGED <<now, kxStore, kxDeleted, localStorage, rawLog, restOfKx>>

\* POST /respond, keyExchange.save() and the response
RespondSave(r) ==
    /\ runs[r].pc = "respond_save"
    /\ kxStore' = SaveRespond(runs[r].kx.id, PublicKeyOf(runs[r].ecdh), runs[r].sig)
    /\ auditLog' = IF runs[r].kx.id \in KxIds
                   THEN AuditLogCreate(AuditEntry("KEY_EXCHANGE_COMPLETED", runs[r].user, "INFO", runs[r].kx.id))
                   ELSE auditLog
    /\ IF runs[r].kx.id \in KxIds /\ Reply(200, TRUE) = 200
       THEN SetRun(r, [runs[r] EXCEPT !.pc = "getUpdated", !.respStatus = 200])
       ELSE SetRun(r, [runs[r] EXCEPT !.pc = "done", !.respStatus = 500,
                           !.error = "Failed to complete key exchange"])
    /\ UNCHANGED <<now, kxDeleted, localStorage, rawLog, restOfKx>>

\* completeKeyExchange: GET /key-exchange/:id (the references are not populated)
GetUpdated(r) ==
    /\ runs[r].pc = "getUpdated"
    /\ LET updated == findById(runs[r].kx.id)
       IN  IF updated.status = "none"
           THEN SetRun(r, [runs[r] EXCEPT !.pc = "done", !.error = "Failed to complete key exchange"])
           ELSE SetRun(r, [runs[r] EXCEPT !.pc = "establishSessionKey", !.kx = updated])
    /\ UNCHANGED <<now, kxStore, kxDeleted, localStorage, rawLog, auditLog, restOfKx>>

\* establishSessionKey: which side the user is on
isInitiator(keyExchange, u) ==
    \/ dot_id(keyExchange, keyExchange.initiatorId) = user_id(u)
    \/ dot_id(keyExchange, keyExchange.initiatorId) = user__id(u)

\* establishSessionKey: "" when the key can be derived, else the error thrown
EstablishError(keyExchange, exchangeData, u) ==
    IF exchangeData = NoStored THEN "Key exchange data not found in localStorage"
    ELSE IF exchangeData.ecdhPrivateKey = 0 THEN "ECDH private key not found in storage"
    ELSE IF isInitiator(keyExchange, u) /\ keyExchange.responderPublicKey = 0
         THEN "Responder public key not available yet"
    ELSE ""

theirECDHPublicKey(keyExchange, u) ==
    IF isInitiator(keyExchange, u) THEN keyExchange.responderPublicKey ELSE keyExchange.initiatorPublicKey

EstablishSessionKey(r) ==
    /\ runs[r].pc = "establishSessionKey"
    /\ LET u == runs[r].user
           keyExchange == runs[r].kx
           exchangeData == localStorage[<<u, runs[r].peer>>]
           err == EstablishError(keyExchange, exchangeData, u)
       IN  IF err # ""
           THEN SetRun(r, [runs[r] EXCEPT !.pc = "done", !.error = err])
           ELSE SetRun(r, [runs[r] EXCEPT
                    !.pc = "done",
                    !.sessionKey = deriveSessionKey(exchangeData.ecdhPrivateKey,
                                       theirECDHPublicKey(keyExchange, u),
                                       keyExchange.initiatorId, keyExchange.responderId),
                    !.keyExchangeStatus = "completed",
                    !.error = ""])
    /\ UNCHANGED <<now, kxStore, kxDeleted, localStorage, rawLog, auditLog, restOfKx>>

----------------------------------------------------------------------------
(* Requests made by hand with a valid token (any HTTP client can send them) *)

\* the ECDH key pair of a sender that is not a Chat client of the model
OutsideKey == Len(Primes)

\* (public key, signature) pairs put in the body of a hand-made /initiate: the
\* pair u2 made for an exchange with u3, and a key signed with a long-term key
\* that belongs to nobody in the directory
RawPairs ==
    {<<initiateKeyExchange("u3", "u2", OutsideKey, 0).initiatorPublicKey,
       initiateKeyExchange("u3", "u2", OutsideKey, 0).initiatorSignature>>,
     <<PublicKeyOf(OutsideKey), signData(messageToSign("u1", PublicKeyOf(OutsideKey), 0), UnknownUser)>>}

RawEntry(kind, caller, to, id, status, before) ==
    [kind |-> kind, caller |-> caller, to |-> to, id |-> id, status |-> status, at |-> now,
     created |-> Len(kxStore') - Len(kxStore), before |-> before, after |-> IF id \in 1..Len(kxStore') /\ id \notin kxDeleted THEN kxStore'[id] ELSE NoExchange]

RawInitiate(u, responderId, initiatorPublicKey, initiatorSignature) ==
    /\ Len(rawLog) < MaxRaw
    /\ Len(kxStore) < MaxExchanges
    /\ LET status == InitiateStatus(responderId, initiatorPublicKey, initiatorSignature)
           id == IF status = 201 THEN Len(kxStore) + 1 ELSE 0
       IN  /\ kxStore' = IF status = 201
                         THEN Append(kxStore, NewKeyExchange(id, u, responderId,
                                                  initiatorPublicKey, initiatorSignature))
                         ELSE kxStore
           /\ auditLog' = IF status = 201
                          THEN AuditLogCreate(AuditEntry("KEY_EXCHANGE_INITIATED", u, "INFO", id))
                          ELSE auditLog
           /\ rawLog' = Append(rawLog, RawEntry("initiate", u, responderId, id, Reply(status, status = 201), NoExchange))
    /\ UNCHANGED <<now, kxDeleted, localStorage, runs, restOfKx>>

RawRespond(u, keyExchangeId, responderPublicKey, responderSignature) ==
    /\ Len(rawLog) < MaxRaw
    /\ LET status == RespondStatus(keyExchangeId, findById(keyExchangeId), u,
                                   responderPublicKey, responderSignature)
       IN  /\ kxStore' = IF status = 200
                         THEN SaveRespond(keyExchangeId, responderPublicKey, responderSignature)
                         ELSE kxStore
           /\ auditLog' = CASE status = 403 -> AuditLogCreate(AuditEntry("KEY_EXCHANGE_FAILED", u, "WARNING", keyExchangeId))
                            [] status = 200 -> AuditLogCreate(AuditEntry("KEY_EXCHANGE_COMPLETED", u, "INFO", keyExchangeId))
                            [] OTHER -> auditLog
           /\ rawLog' = Append(rawLog, RawEntry("respond", u, "", keyExchangeId,
                                       Reply(status, status \in {200, 403}), findById(keyExchangeId)))
    /\ UNCHANGED <<now, kxDeleted, localStorage, runs, restOfKx>>

\* POST /confirm
ConfirmStatus_noPartyCheck(keyExchangeId, e, caller, keyConfirmation) ==
    IF keyExchangeId = 0 \/ keyConfirmation = 0 THEN 400
    ELSE IF e.status = "none" THEN 404
    ELSE 200

ConfirmStatus(keyExchangeId, e, caller, keyConfirmation) ==
    IF keyExchangeId = 0 \/ keyConfirmation = 0 THEN 400
    ELSE IF e.status = "none" THEN 404
    ELSE IF e.initiatorId # caller /\ e.responderId # caller THEN 403
    ELSE 200

Confirm(u, keyExchangeId, keyConfirmation) ==
    /\ Len(rawLog) < MaxRaw
    /\ LET status == ConfirmStatus(keyExchangeId, findById(keyExchangeId), u, keyConfirmation)
       IN  /\ kxStore' = IF status = 200
                         THEN [kxStore EXCEPT ![keyExchangeId].keyConfirmation = keyConfirmation]
                         ELSE kxStore
           /\ rawLog' = Append(rawLog, RawEntry("confirm", u, "", keyExchangeId, status, findById(keyExchangeId)))
    /\ UNCHANGED <<now, kxDeleted, localStorage, runs, auditLog, restOfKx>>

----------------------------------------------------------------------------
(* Time, and the TTL index { expiresAt: 1 }, { expireAfterSeconds: 0 }: the  *)
(* database removes a record at some moment after its expiresAt.            *)

\* the clock is read at steps of half a TTL (rounded up)
TickStep == (TTL + 1) \div 2

Tick ==
    /\ now + TickStep <= MaxTime
    /\ now' = now + TickStep
    /\ UNCHANGED <<kxStore, kxDeleted, localStorage, runs, rawLog, auditLog, restOfKx>>

TTLExpire(i) ==
    /\ i \in KxIds
    /\ kxStore[i].expiresAt <= now
    /\ kxDeleted' = kxDeleted \cup {i}
    /\ UNCHANGED <<now, kxStore, localStorage, runs, rawLog, auditLog, restOfKx>>

----------------------------------------------------------------------------
(* The key exchange: server, Chat clients, hand-made requests *)

NoGcm == [pc |-> "none"]
NoSgn == [pc |-> "none"]

NoDerivation == [a |-> 0, b |-> 0, initiatorId |-> "", responderId |-> "",
                 byInitiator |-> NoSessionKey, byResponder |-> NoSessionKey]

InitKx ==
    /\ now = 0
    /\ kxStore = <<>>
    /\ kxDeleted = {}
    /\ localStorage = [c \in Users \X Users |-> NoStored]
    /\ runs = <<>>
    /\ rawLog = <<>>

\* nothing logged, the audit collection writable, no client call, no function applied
InitOther ==
    /\ auditLog = {}
    /\ auditUp = TRUE
    /\ dec = <<>>
    /\ gcm = NoGcm
    /\ sgn = NoSgn
    /\ keys = NoKeys
    /\ rt = NoRoundTrip
    /\ conv = <<>>
    /\ chat = NoChat
    /\ kc = NoConfirmation

Init ==
    /\ InitKx
    /\ msgStore = <<>>
    /\ sendReqs = <<>>
    /\ drv = NoDerivation
    /\ InitOther

\* the conversations opened in the Chat clients of the model
ChatPairs == {<<"u1", "u2">>, <<"u2", "u1">>}

\* Two users who chat with each other, the clock and the TTL index
Next ==
    \/ \E c \in ChatPairs : OpenChat(c[1], c[2])
    \/ \E r \in RunIds : CheckKeyExchange(r)
    \/ \E r \in RunIds : CheckKeyExchangeFailed(r)
    \/ \E r \in RunIds : StartKeyExchange(r)
    \/ \E r \in RunIds : StartKeyExchangeStore(r)
    \/ \E r \in RunIds : CompleteKeyExchange(r)
    \/ \E r \in RunIds : RespondFind(r)
    \/ \E r \in RunIds : RespondSave(r)
    \/ \E r \in RunIds : GetUpdated(r)
    \/ \E r \in RunIds : EstablishSessionKey(r)
    \/ Tick
    \/ \E i \in KxIds : TTLExpire(i)

\* The Chat client of u1 in its conversation with u2, and a sender who puts a
\* key and a signature of its choice in an /initiate toward u1 in the name of u2
NextRelay ==
    \/ OpenChat("u1", "u2")
    \/ \E r \in RunIds : CheckKeyExchange(r)
    \/ \E r \in RunIds : CheckKeyExchangeFailed(r)
    \/ \E r \in RunIds : StartKeyExchange(r)
    \/ \E r \in RunIds : StartKeyExchangeStore(r)
    \/ \E r \in RunIds : CompleteKeyExchange(r)
    \/ \E r \in RunIds : RespondFind(r)
    \/ \E r \in RunIds : RespondSave(r)
    \/ \E r \in RunIds : GetUpdated(r)
    \/ \E r \in RunIds : EstablishSessionKey(r)
    \/ \E pair \in RawPairs : RawInitiate("u2", "u1", pair[1], pair[2])

SpecRelay == Init /\ [][NextRelay]_vars

\* The key-exchange routes under the requests that any holder of a token can send
NextServer ==
    \/ \E u \in Users, p \in {"u1", "u2", UnknownUser} : \E pair \in RawPairs : RawInitiate(u, p, pair[1], pair[2])
    \/ \E u \in Users, i \in 0..Len(kxStore) :
           RawRespond(u, i, PublicKeyOf(OutsideKey),
                      signData(messageToSign(username(u), PublicKeyOf(OutsideKey), now), u))
    \/ \E u \in Users, i \in 0..Len(kxStore) : Confirm(u, i, 1)
    \/ Tick
    \/ \E i \in KxIds : TTLExpire(i)

SpecServer == Init /\ [][NextServer]_vars

\* POST /initiate with every kind of responderId: a user, an id that is in
\* nobody's name, a text that is not an id
NextInitiate ==
    \/ \E u \in Users, p \in Users \cup {UnknownUser, MalformedId} : \E pair \in RawPairs :
           RawInitiate(u, p, pair[1], pair[2])
    \/ Tick

SpecInitiate == Init /\ [][NextInitiate]_vars

\* The Chat client of u2, opened once, starting an exchange with u1, the
\* respond request of u1, and confirm requests from the two of them and from u3
NextConfirm ==
    \/ runs = <<>> /\ OpenChat("u2", "u1")
    \/ \E r \in RunIds : CheckKeyExchange(r)
    \/ \E r \in RunIds : StartKeyExchange(r)
    \/ \E r \in RunIds : StartKeyExchangeStore(r)
    \/ \E i \in KxIds :
           RawRespond("u1", i, PublicKeyOf(OutsideKey),
                      signData(messageToSign(username("u1"), PublicKeyOf(OutsideKey), now), "u1"))
    \/ \E u \in Users, i \in KxIds : Confirm(u, i, 1)
    \/ Tick
    \/ \E i \in KxIds : TTLExpire(i)

SpecConfirm == Init /\ [][NextConfirm]_vars

\* The Chat client of u2 starting an exchange with u1, and respond requests for
\* it from u1, one after another, with one of two key pairs
NextRespond ==
    \/ OpenChat("u2", "u1")
    \/ \E r \in RunIds : CheckKeyExchange(r)
    \/ \E r \in RunIds : StartKeyExchange(r)
    \/ \E r \in RunIds : StartKeyExchangeStore(r)
    \/ \E i \in KxIds, k \in {1, OutsideKey} :
           RawRespond("u1", i, PublicKeyOf(k),
                      signData(messageToSign(username("u1"), PublicKeyOf(k), now), "u1"))

SpecRespond == Init /\ [][NextRespond]_vars

\* The Chat client of u2 starting an exchange with u1 and coming back to it, and
\* a respond request in the name of u1 that carries the key pair of the sender:
\* signed by u1, or signed with a long-term key that is not the one of u1
NextSubstitute ==
    \/ OpenChat("u2", "u1")
    \/ \E r \in RunIds : CheckKeyExchange(r)
    \/ \E r \in RunIds : StartKeyExchange(r)
    \/ \E r \in RunIds : StartKeyExchangeStore(r)
    \/ \E r \in RunIds : EstablishSessionKey(r)
    \/ \E i \in KxIds, signer \in {"u1", UnknownUser} :
           RawRespond("u1", i, PublicKeyOf(OutsideKey),
                      signData(messageToSign(username("u2"), PublicKeyOf(OutsideKey), now), signer))

SpecSubstitute == Init /\ [][NextSubstitute]_vars

\* The Chat client of u1 in its conversation with u2 over time.  The client of
\* u2 is seen by its requests: it initiates or responds with a key pair of its
\* own, and sends messages under the session key it derives from the record.
Peer == "u2"

\* the key pair the peer generates for its next request
PeerKeyPair == OutsideKey - Len(rawLog)

\* establishSessionKey of the peer on a completed record
PeerSessionKey(e) ==
    LET mine == IF e.initiatorId = Peer THEN e.initiatorPublicKey ELSE e.responderPublicKey
        theirs == IF e.initiatorId = Peer THEN e.responderPublicKey ELSE e.initiatorPublicKey
        k == CHOOSE k \in 1..Len(Primes) : PublicKeyOf(k) = mine
    IN  deriveSessionKey(k, theirs, e.initiatorId, e.responderId)

\* sendMessage of the peer: the record of GET /pending is completed, the message
\* is encrypted under the session key and stored
PeerSendMessage(i) ==
    /\ Len(conv) < MaxSends
    /\ i \in PendingFilter(Peer)
    /\ kxStore[i].status = "completed"
    /\ InvolvesBoth(kxStore[i], Peer, "u1")
    /\ conv' = Append(conv, [senderId |-> Peer, receiverId |-> "u1", exchange |-> i,
                             encryptedUnder |-> PeerSessionKey(kxStore[i])])
    /\ UNCHANGED <<kxVars, msgVars, drv, auditLog, auditUp, dec, gcm, sgn, keys, rt, chat, kc>>

\* the mounted Chat client of u1 holds the session key the peer derives from record i
ReceiverHolds(i) ==
    /\ kxStore[i].status = "completed"
    /\ InvolvesBoth(kxStore[i], Peer, "u1")
    /\ \E r \in RunIds : /\ runs[r].user = "u1"
                         /\ runs[r].mounted
                         /\ runs[r].sessionKey = PeerSessionKey(kxStore[i])

\* the peer finds no record of the conversation in its GET /pending
PeerFindsNone == \A i \in PendingFilter(Peer) : ~InvolvesBoth(kxStore[i], Peer, "u1")

\* u1 opens the chat when the run of its last mount has returned; the peer
\* initiates when it finds no record; the messages are those sent while u1 can
\* read them
NextConversation ==
    \/ (\A r \in RunIds : runs[r].pc = "done") /\ OpenChat("u1", Peer)
    \/ \E r \in RunIds : CheckKeyExchange(r)
    \/ \E r \in RunIds : StartKeyExchange(r)
    \/ \E r \in RunIds : StartKeyExchangeStore(r)
    \/ \E r \in RunIds : CompleteKeyExchange(r)
    \/ \E r \in RunIds : RespondFind(r)
    \/ \E r \in RunIds : RespondSave(r)
    \/ \E r \in RunIds : GetUpdated(r)
    \/ \E r \in RunIds : EstablishSessionKey(r)
    \/ /\ PeerFindsNone
       /\ RawInitiate(Peer, "u1", PublicKeyOf(PeerKeyPair),
                      signData(messageToSign("u1", PublicKeyOf(PeerKeyPair), now), Peer))
    \/ \E i \in PendingFilter(Peer) :
           RawRespond(Peer, i, PublicKeyOf(PeerKeyPair),
                      signData(messageToSign(username("u1"), PublicKeyOf(PeerKeyPair), now), Peer))
    \/ \E i \in KxIds : ReceiverHolds(i) /\ PeerSendMessage(i)
    \/ Tick
    \/ \E i \in KxIds : TTLExpire(i)

SpecConversation == Init /\ [][NextConversation]_vars

\* The Chat client of u2 starting an exchange with u1, and the respond request
\* of u1 for it.  Once a run has posted its /initiate, each of its further
\* steps is eventually taken (the steps are continuations of promises that
\* have settled); nothing makes the user open the chat again.
AfterInitiate ==
    \/ \E r \in RunIds : CheckKeyExchange(r)
    \/ \E r \in RunIds : StartKeyExchangeStore(r)
    \/ \E r \in RunIds : EstablishSessionKey(r)

ClientStep ==
    \/ AfterInitiate
    \/ \E r \in RunIds : StartKeyExchange(r)

PeerResponds ==
    \E i \in KxIds :
        RawRespond("u1", i, PublicKeyOf(OutsideKey),
                   signData(messageToSign(username("u2"), PublicKeyOf(OutsideKey), now), "u1"))

NextAutomatic ==
    \/ OpenChat("u2", "u1")
    \/ ClientStep
    \/ PeerResponds

SpecAutomatic == Init /\ [][NextAutomatic]_vars /\ WF_vars(AfterInitiate)

Spec == Init /\ [][Next]_vars

----------------------------------------------------------------------------
(* routes/messages.js, POST /send, and models/Message.js *)

NewMessage_nonceScopedBySender(senderId, receiverId, nonce, sequenceNumber) ==
    [senderId |-> senderId, receiverId |-> receiverId, nonce |-> senderId \o ":" \o nonce,
     sequenceNumber |-> sequenceNumber, timestamp |-> now]

NewMessage(senderId, receiverId, nonce, sequenceNumber) ==
    [senderId |-> senderId, receiverId |-> receiverId, nonce |-> nonce,
     sequenceNumber |-> sequenceNumber, timestamp |-> now]

\* Message.findOne({ nonce })
findOneByNonce(nonce) == \E i \in 1..Len(msgStore) : msgStore[i].nonce = nonce

\* the unique index on nonce: an insert of a stored nonce fails with E11000
DuplicateKey_noIndex(message) == FALSE
DuplicateKey(message) == \E i \in 1..Len(msgStore) : msgStore[i].nonce = message.nonce

SendIds == 1..Len(sendReqs)

Accepted == {i \in SendIds : sendReqs[i].status = 201}

\* message.save(): the insert, refused by the unique index for a stored nonce
MessageSave_ignoreError(message) == Append(msgStore, message)
MessageSave(message) == IF DuplicateKey(message) THEN msgStore ELSE Append(msgStore, message)

ReplayAudit_warning(u, i) == AuditEntry("REPLAY_ATTACK_DETECTED", u, "WARNING", i)
ReplayAudit(u, i) == AuditEntry("REPLAY_ATTACK_DETECTED", u, "CRITICAL", i)

\* the request reaches the handler: validation of the body ("" is a missing field).
\* timestamp is the time the sender gives for the message; the handler does not
\* read it from the body.
SendArrive(u, receiverId, nonce, sequenceNumber, timestamp) ==
    /\ Len(sendReqs) < MaxSends
    /\ sendReqs' = Append(sendReqs,
           [caller |-> u, receiverId |-> receiverId, nonce |-> nonce, sequenceNumber |-> sequenceNumber,
            timestamp |-> timestamp, at |-> now, saved |-> FALSE,
            pc |-> IF receiverId = "" \/ nonce = "" THEN "done" ELSE "findOne",
            status |-> IF receiverId = "" \/ nonce = "" THEN 400 ELSE 0,
            rejectedBy |-> IF receiverId = "" \/ nonce = "" THEN "validation" ELSE "",
            after |-> Accepted])
    /\ UNCHANGED <<msgStore, auditLog, restOfMsg>>

\* await Message.findOne({ nonce }); a nonce that is found is logged and then
\* rejected.  When AuditLog.create rejects, the catch answers 500.
SendFindOne(i) ==
    /\ sendReqs[i].pc = "findOne"
    /\ IF findOneByNonce(sendReqs[i].nonce)
       THEN /\ auditLog' = AuditLogCreate(ReplayAudit(sendReqs[i].caller, i))
            /\ sendReqs' = [sendReqs EXCEPT ![i] =
                   IF auditUp
                   THEN [@ EXCEPT !.pc = "done", !.status = 400, !.rejectedBy = "findOne"]
                   ELSE [@ EXCEPT !.pc = "done", !.status = 500, !.rejectedBy = "findOne"]]
       ELSE /\ auditLog' = auditLog
            /\ sendReqs' = [sendReqs EXCEPT ![i] = [@ EXCEPT !.pc = "save"]]
    /\ UNCHANGED <<msgStore, restOfMsg>>

\* await message.save(), the MESSAGE_SENT record and the 201; in the catch, the
\* duplicate-key error 11000 is logged and answered 400, any other error 500.
\* AuditLog.create rejecting inside the catch leaves the request unanswered
\* (status 0).
SendSave(i) ==
    /\ sendReqs[i].pc = "save"
    /\ LET message == NewMessage(sendReqs[i].caller, sendReqs[i].receiverId,
                                 sendReqs[i].nonce, sendReqs[i].sequenceNumber)
       IN  /\ msgStore' = MessageSave(message)
           /\ IF DuplicateKey(message)
              THEN /\ auditLog' = AuditLogCreate(ReplayAudit(sendReqs[i].caller, i))
                   /\ sendReqs' = [sendReqs EXCEPT ![i] =
                          [@ EXCEPT !.pc = "done", !.status = IF auditUp THEN 400 ELSE 0, !.rejectedBy = "index"]]
              ELSE /\ auditLog' = AuditLogCreate(AuditEntry("MESSAGE_SENT", sendReqs[i].caller, "INFO", i))
                   /\ sendReqs' = [sendReqs EXCEPT ![i] =
                          [@ EXCEPT !.pc = "done", !.status = IF auditUp THEN 201 ELSE 500, !.saved = TRUE]]
    /\ UNCHANGED restOfMsg

NextMsg ==
    \/ \E u \in {"u1", "u2"}, receiverId \in {"u2", "u3"}, nonce \in {"", "n1", "n2"}, sequenceNumber \in {0, 1} :
           SendArrive(u, receiverId, nonce, sequenceNumber, now)
    \/ \E i \in SendIds : SendFindOne(i)
    \/ \E i \in SendIds : SendSave(i)

SpecMsg == Init /\ [][NextMsg]_vars

\* the window of the freshness computation of POST /send (fiveMinutesAgo), minutes
FreshnessWindow == 5

\* POST /send over time, by senders who date their messages as they like
NextFresh ==
    \/ \E u \in {"u1", "u2"}, nonce \in {"n1", "n2"}, timestamp \in {0, now} :
           SendArrive(u, "u3", nonce, 0, timestamp)
    \/ \E i \in SendIds : SendFindOne(i)
    \/ \E i \in SendIds : SendSave(i)
    \/ Tick

SpecFresh == Init /\ [][NextFresh]_vars

----------------------------------------------------------------------------
(* middleware/auth.js, and the two handlers that store the caller's id.    *)
(* A request carries a token and a body; the body may carry any field,     *)
(* among them a senderId or an initiatorId of the sender's choice.  Each   *)
(* request is logged with its token, its body and what it stored.          *)

MaxPosted == 1

\* process.env.JWT_SECRET, and a key that is not it
JwtSecret == "secret"
OtherSecret == "other"

NoToken == [userId |-> "", key |-> "", expired |-> FALSE]

\* jwt.sign({ userId, username }, secret, { expiresIn: '7d' })
jwtSign(userId, key, expired) == [userId |-> userId, key |-> key, expired |-> expired]

\* the tokens of u1 and u3, a token of u1 signed with another key, a token of
\* u1 that has expired, a token of a user who is no longer stored, and none
Tokens ==
    {NoToken, jwtSign("u1", JwtSecret, FALSE), jwtSign("u3", JwtSecret, FALSE), jwtSign("u1", OtherSecret, FALSE),
     jwtSign("u1", JwtSecret, TRUE), jwtSign(UnknownUser, JwtSecret, FALSE)}

\* authenticateToken: 0 when next() is called with req.userId = user._id
authenticateToken(token) ==
    IF token = NoToken THEN 401
    ELSE IF token.key # JwtSecret \/ token.expired THEN 403
    ELSE IF token.userId \notin Users THEN 401
    ELSE 0

AuthFailure == AuditEntry("AUTH_FAILURE", "", "WARNING", 0)

SendBodies ==
    {[receiverId |-> "u2", nonce |-> nonce, sequenceNumber |-> 0, senderId |-> senderId] :
        nonce \in {"n1", "n2"}, senderId \in {"u1", "u3"}}

InitiateBodies ==
    {[responderId |-> "u2", initiatorPublicKey |-> PublicKeyOf(OutsideKey),
      initiatorSignature |-> signData(messageToSign("u2", PublicKeyOf(OutsideKey), 0), "u1"),
      initiatorId |-> initiatorId] : initiatorId \in {"u1", "u3"}}

\* new Message({ senderId: req.userId, receiverId, ..., nonce, sequenceNumber })
NewMessageOf_bodySender(userId, body) == NewMessage(body.senderId, body.receiverId, body.nonce, body.sequenceNumber)

NewMessageOf(userId, body) == NewMessage(userId, body.receiverId, body.nonce, body.sequenceNumber)

\* new KeyExchange({ initiatorId: req.userId, responderId, initiatorPublicKey, initiatorSignature, status: 'pending' })
KeyExchangeOf(id, userId, body) ==
    NewKeyExchange(id, userId, body.responderId, body.initiatorPublicKey, body.initiatorSignature)

\* POST /messages/send behind authenticateToken
PostSend(token, body) ==
    /\ Len(sendReqs) < MaxPosted
    /\ LET auth == authenticateToken(token)
           message == NewMessageOf(token.userId, body)
           status == IF auth # 0 THEN auth
                     ELSE IF body.receiverId = "" \/ body.nonce = "" THEN 400
                     ELSE IF findOneByNonce(body.nonce) \/ DuplicateKey(message) THEN 400
                     ELSE 201
       IN  /\ msgStore' = IF status = 201 THEN MessageSave(message) ELSE msgStore
           /\ auditLog' = IF auth # 0 THEN AuditLogCreate(AuthFailure)
                          ELSE IF status = 201
                          THEN AuditLogCreate(AuditEntry("MESSAGE_SENT", token.userId, "INFO", Len(sendReqs) + 1))
                          ELSE IF body.receiverId = "" \/ body.nonce = "" THEN auditLog
                          ELSE AuditLogCreate(ReplayAudit(token.userId, Len(sendReqs) + 1))
           /\ sendReqs' = Append(sendReqs, [token |-> token, body |-> body, status |-> status,
                                            stored |-> IF status = 201 THEN Len(msgStore') ELSE 0])
    /\ UNCHANGED restOfMsg

\* POST /key-exchange/initiate behind authenticateToken
PostInitiate(token, body) ==
    /\ Len(rawLog) < MaxPosted
    /\ Len(kxStore) < MaxExchanges
    /\ LET auth == authenticateToken(token)
           status == IF auth # 0 THEN auth
                     ELSE InitiateStatus(body.responderId, body.initiatorPublicKey, body.initiatorSignature)
           id == Len(kxStore) + 1
       IN  /\ kxStore' = IF status = 201 THEN Append(kxStore, KeyExchangeOf(id, token.userId, body)) ELSE kxStore
           /\ auditLog' = IF auth # 0 THEN AuditLogCreate(AuthFailure)
                          ELSE IF status = 201
                          THEN AuditLogCreate(AuditEntry("KEY_EXCHANGE_INITIATED", token.userId, "INFO", id))
                          ELSE auditLog
           /\ rawLog' = Append(rawLog, [token |-> token, body |-> body, status |-> status,
                                        stored |-> IF status = 201 THEN id ELSE 0])
    /\ UNCHANGED <<now, kxDeleted, localStorage, runs, restOfKx>>

NextIdentity ==
    \/ \E token \in Tokens, body \in SendBodies : PostSend(token, body)
    \/ \E token \in Tokens, body \in InitiateBodies : PostInitiate(token, body)

SpecIdentity == Init /\ [][NextIdentity]_vars

----------------------------------------------------------------------------
(* components/Chat.js: the messages of the Chat client of u1 in its chat   *)
(* with u2.  chat.posts lists the bodies the client posted to               *)
(* /messages/send, each with the status of its answer; chat.conversation is *)
(* the part of the Message collection between the two users, in timestamp   *)
(* order.                                                                   *)

MaxMounts == 2
MaxPosts == 3
MaxPeerMessages == 1
MaxCalls == 3

chatRest == <<kxVars, msgVars, drv, auditLog, auditUp, dec, gcm, sgn, keys, rt, conv, kc>>

ChatUser == "u1"
ChatPeer == "u2"

\* the texts typed into the input: nothing, a blank, "hi"
Typed == {<<>>, <<32>>, <<104, 105>>}

IsWhiteSpace(c) == c \in {9, 10, 11, 12, 13, 32}

RECURSIVE trimStart(_)
trimStart(str) ==
    IF str # <<>> /\ IsWhiteSpace(Head(str)) THEN trimStart(Tail(str)) ELSE str

RECURSIVE trimEnd(_)
trimEnd(str) ==
    IF str # <<>> /\ IsWhiteSpace(str[Len(str)]) THEN trimEnd(SubSeq(str, 1, Len(str) - 1)) ELSE str

\* String.prototype.trim
trim(str) == trimEnd(trimStart(str))

\* the session key establishSessionKey hands to setSessionKey
ChatSessionKey == deriveSessionKey(1, PublicKeyOf(2), ChatUser, ChatPeer)

\* what the component keeps of a message
Shown(m) == [senderId |-> m.senderId, receiverId |-> m.receiverId, sequenceNumber |-> m.sequenceNumber]

\* a mount of the component: useState gives the initial values, and the effect
\* on [userId] calls loadMessages
ChatMount ==
    /\ chat.mounts < MaxMounts
    /\ chat' = [chat EXCEPT !.mounts = @ + 1, !.mounted = TRUE, !.loading = TRUE, !.loaded = FALSE, !.messages = <<>>,
                            !.sequenceNumber = 0, !.sessionKey = NoSessionKey, !.error = ""]
    /\ UNCHANGED chatRest

\* loadMessages, when the answer of GET /conversation/:otherUserId is there:
\* the messages of both directions, oldest first; a failed request is logged
LoadMessages(ok) ==
    /\ chat.loading
    /\ LET data == [i \in 1..Len(chat.conversation) |-> Shown(chat.conversation[i])]
           lastMessage == data[Len(data)]
       IN  chat' = IF ~ok THEN [chat EXCEPT !.loading = FALSE]
                   ELSE [chat EXCEPT
                            !.loading = FALSE,
                            !.loaded = TRUE,
                            !.messages = data,
                            !.sequenceNumber = IF Len(data) > 0 /\ lastMessage.senderId = ChatUser
                                               THEN lastMessage.sequenceNumber + 1
                                               ELSE @]
    /\ UNCHANGED chatRest

\* setSessionKey(key) of establishSessionKey
SetSessionKey ==
    /\ chat.mounted
    /\ chat.sessionKey = NoSessionKey
    /\ chat' = [chat EXCEPT !.sessionKey = ChatSessionKey]
    /\ UNCHANGED chatRest

\* the first test of sendMessage
SendRefused_emptyOnly(newMessage, sessionKey) == trim(newMessage) = <<>>

SendRefused(newMessage, sessionKey) == trim(newMessage) = <<>> \/ sessionKey = NoSessionKey

\* sendMessage with newMessage in the input.  ok: POST /messages/send answers
\* 201 (the nonce is fresh and the handler does not look at sequenceNumber);
\* otherwise the request fails (500, or no answer).
SendMessage(newMessage, ok) ==
    /\ chat.mounted
    /\ chat.calls < MaxCalls
    /\ Len(chat.posts) < MaxPosts
    /\ IF SendRefused(newMessage, chat.sessionKey)
       THEN chat' = [chat EXCEPT !.calls = @ + 1,
                                !.error = IF chat.sessionKey = NoSessionKey
                                          THEN "Key exchange not completed. Please wait..." ELSE @]
       ELSE LET currentSeq == chat.sequenceNumber
                nonce == Len(chat.posts) + 1
                body == [receiverId |-> ChatPeer, nonce |-> nonce, sequenceNumber |-> currentSeq,
                         sessionKey |-> chat.sessionKey, status |-> IF ok THEN 201 ELSE 500,
                         loaded |-> chat.loaded]
            IN  chat' = IF ok
                        THEN [chat EXCEPT
                                 !.calls = @ + 1,
                                 !.posts = Append(@, body),
                                 !.conversation = Append(@, NewMessage(ChatUser, ChatPeer, nonce, currentSeq)),
                                 !.messages = Append(@, [senderId |-> ChatUser, receiverId |-> ChatPeer,
                                                         sequenceNumber |-> currentSeq]),
                                 !.sequenceNumber = currentSeq + 1,
                                 !.error = ""]
                        ELSE [chat EXCEPT !.calls = @ + 1, !.posts = Append(@, body),
                                          !.error = "Failed to send message"]
    /\ UNCHANGED chatRest

\* a message of the peer is stored
PeerMessages == SelectSeq(chat.conversation, LAMBDA m : m.senderId = ChatPeer)

PeerMessageStored ==
    /\ Len(PeerMessages) < MaxPeerMessages
    /\ chat' = [chat EXCEPT !.conversation =
                    Append(@, NewMessage(ChatPeer, ChatUser, 100 + Len(PeerMessages), Len(PeerMessages)))]
    /\ UNCHANGED chatRest

NextChat ==
    \/ ChatMount
    \/ \E ok \in BOOLEAN : LoadMessages(ok)
    \/ SetSessionKey
    \/ \E newMessage \in Typed, ok \in BOOLEAN : SendMessage(newMessage, ok)
    \/ PeerMessageStored

SpecChat == Init /\ [][NextChat]_vars

----------------------------------------------------------------------------
(* Session-key derivation run by the two sides, each with its own private key *)
(* and the public key of the other side                                      *)

InitDerive ==
    /\ InitKx
    /\ msgStore = <<>>
    /\ sendReqs = <<>>
    /\ InitOther
    /\ \E a \in 1..MaxKeyPairs, b \in 1..MaxKeyPairs, i \in Users, r \in Users :
           /\ i # r
           /\ drv = [NoDerivation EXCEPT !.a = a, !.b = b, !.initiatorId = i, !.responderId = r]

DeriveAsInitiator ==
    /\ drv.byInitiator = NoSessionKey
    /\ drv' = [drv EXCEPT !.byInitiator = deriveSessionKey(drv.a, PublicKeyOf(drv.b), drv.initiatorId, drv.responderId)]
    /\ UNCHANGED <<kxVars, msgVars, auditLog, auditUp, dec, gcm, sgn, keys, rt, conv, chat, kc>>

DeriveAsResponder ==
    /\ drv.byResponder = NoSessionKey
    /\ drv' = [drv EXCEPT !.byResponder = deriveSessionKey(drv.b, PublicKeyOf(drv.a), drv.initiatorId, drv.responderId)]
    /\ UNCHANGED <<kxVars, msgVars, auditLog, auditUp, dec, gcm, sgn, keys, rt, conv, chat, kc>>

NextDerive == DeriveAsInitiator \/ DeriveAsResponder

SpecDerive == InitDerive /\ [][NextDerive]_vars

----------------------------------------------------------------------------
(* encryptMessage and decryptMessage applied: a plaintext is encrypted, the  *)
(* triple travels through the server, and what arrives is decrypted          *)

MaxLen == 2
MaxKeys == 2

\* code units: "A", e acute, a byte order mark, the two halves of an emoji
CodeUnits == {65, 233, ByteOrderMark, 55357, 56832}

Plaintexts == UNION {[1..n -> CodeUnits] : n \in 0..MaxLen}

IVs == {[i \in 1..12 |-> 0], [i \in 1..12 |-> 21 * i]}

NoTriple == [ciphertext |-> <<>>, iv |-> <<>>, authTag |-> <<>>]

InitGcm ==
    /\ InitKx
    /\ msgStore = <<>>
    /\ sendReqs = <<>>
    /\ drv = NoDerivation
    /\ auditLog = {}
    /\ auditUp = TRUE
    /\ dec = <<>>
    /\ sgn = NoSgn
    /\ keys = NoKeys
    /\ rt = NoRoundTrip
    /\ conv = <<>>
    /\ chat = NoChat
    /\ kc = NoConfirmation
    /\ \E plaintext \in Plaintexts, key \in 1..MaxKeys, iv \in IVs :
           gcm = [pc |-> "encryptMessage", plaintext |-> plaintext, key |-> key, iv |-> iv,
                  out |-> NoTriple, input |-> NoTriple, field |-> "", decKey |-> 0, result |-> Threw]

gcmRest == <<kxVars, msgVars, drv, auditLog, auditUp, dec, sgn, keys, rt, conv, chat, kc>>

EncryptMessage ==
    /\ gcm.pc = "encryptMessage"
    /\ gcm' = [gcm EXCEPT !.pc = "transit", !.out = encryptMessage(gcm.plaintext, gcm.key, gcm.iv)]
    /\ UNCHANGED gcmRest

\* one character of a base64 text replaced: by the next character of the
\* alphabet, or by the character whose value differs in the bit of weight 2
Replaced(text, pos, how) ==
    [text EXCEPT ![pos] = IF how = "next" THEN (@ + 1) % 64
                          ELSE IF (@ \div 2) % 2 = 0 THEN @ + 2 ELSE @ - 2]

\* the triple arrives as it was sent
Deliver(key) ==
    /\ gcm.pc = "transit"
    /\ gcm' = [gcm EXCEPT !.pc = "decryptMessage", !.input = gcm.out, !.decKey = key]
    /\ UNCHANGED gcmRest

\* the triple arrives with one character of one field replaced
DeliverReplaced(field, pos, how) ==
    /\ gcm.pc = "transit"
    /\ pos \in 1..Len(gcm.out[field])
    /\ gcm' = [gcm EXCEPT !.pc = "decryptMessage", !.field = field, !.decKey = gcm.key,
                          !.input = [gcm.out EXCEPT ![field] = Replaced(@, pos, how)]]
    /\ UNCHANGED gcmRest

\* the triple arrives with white space added to one field (a line break)
DeliverSpaced(field) ==
    /\ gcm.pc = "transit"
    /\ gcm' = [gcm EXCEPT !.pc = "decryptMessage", !.field = field, !.decKey = gcm.key,
                          !.input = [gcm.out EXCEPT ![field] = Append(@, Space)]]
    /\ UNCHANGED gcmRest

DecryptMessage ==
    /\ gcm.pc = "decryptMessage"
    /\ gcm' = [gcm EXCEPT !.pc = "done", !.result = decryptMessage(gcm.input, gcm.decKey)]
    /\ UNCHANGED gcmRest

TripleFields == {"ciphertext", "iv", "authTag"}

\* the length of the base64 text of n bytes
Base64Length(n) == ((n + 2) \div 3) * 4

NextGcm ==
    \/ EncryptMessage
    \/ \E key \in 1..MaxKeys : Deliver(key)
    \/ \E field \in TripleFields, pos \in 1..Base64Length(TagLength), how \in {"next", "bit"} : DeliverReplaced(field, pos, how)
    \/ \E field \in TripleFields : DeliverSpaced(field)
    \/ DecryptMessage

SpecGcm == InitGcm /\ [][NextGcm]_vars

----------------------------------------------------------------------------
(* The audit collection going away and coming back while requests are served *)

AuditDown ==
    /\ auditUp
    /\ auditUp' = FALSE
    /\ UNCHANGED <<kxVars, msgVars, drv, auditLog, dec, gcm, sgn, keys, rt, conv, chat, kc>>

AuditBack ==
    /\ ~auditUp
    /\ auditUp' = TRUE
    /\ UNCHANGED <<kxVars, msgVars, drv, auditLog, dec, gcm, sgn, keys, rt, conv, chat, kc>>

\* POST /send while the audit collection comes and goes
NextAudit ==
    \/ \E u \in {"u1", "u2"}, nonce \in {"", "n1", "n2"} : SendArrive(u, "u3", nonce, 0, now)
    \/ \E i \in SendIds : SendFindOne(i)
    \/ \E i \in SendIds : SendSave(i)
    \/ AuditDown
    \/ AuditBack

SpecAudit == Init /\ [][NextAudit]_vars

\* POST /send, /initiate and /respond while the audit collection comes and goes
NextOutage ==
    \/ \E nonce \in {"n1", "n2"} : SendArrive("u1", "u2", nonce, 0, now)
    \/ \E i \in SendIds : SendFindOne(i)
    \/ \E i \in SendIds : SendSave(i)
    \/ \E pair \in RawPairs : RawInitiate("u2", "u1", pair[1], pair[2])
    \/ \E u \in {"u1", "u3"}, i \in 1..Len(kxStore) :
           RawRespond(u, i, PublicKeyOf(OutsideKey),
                      signData(messageToSign(username(u), PublicKeyOf(OutsideKey), now), u))
    \/ AuditDown
    \/ AuditBack

SpecOutage == Init /\ [][NextOutage]_vars

----------------------------------------------------------------------------
(* decryptAndDisplayMessage of the Chat client, and POST /decryption-failure *)

MaxDecrypts == 2

\* the session key of the conversation, and the key a client holds instead
\* when its derivation went wrong
ConversationKey == 1
OtherKey == 2

\* messages of GET /conversation: one encrypted under the conversation key,
\* and the same with a character of its ciphertext replaced
ReceivedMessages ==
    {encryptMessage(<<65>>, ConversationKey, [i \in 1..12 |-> 0]),
     [encryptMessage(<<65>>, ConversationKey, [i \in 1..12 |-> 0]) EXCEPT !.ciphertext = Replaced(@, 1, "next")]}

DecIds == 1..Len(dec)

\* decryptAndDisplayMessage up to the report: 0 is a session key that is not set
DecryptAndDisplay(u, message, sessionKey) ==
    /\ Len(dec) < MaxDecrypts
    /\ LET decrypted == decryptMessage(message, sessionKey)
       IN  dec' = Append(dec,
               [user |-> u, message |-> message,
                pc |-> IF sessionKey # 0 /\ ~decrypted.ok THEN "report" ELSE "done",
                failed |-> sessionKey # 0 /\ ~decrypted.ok,
                shown |-> IF sessionKey = 0 THEN "[Decryption key not available]"
                          ELSE IF decrypted.ok THEN "plaintext" ELSE "[Decryption failed]",
                reportStatus |-> 0])
    /\ UNCHANGED <<kxVars, msgVars, drv, auditLog, auditUp, gcm, sgn, keys, rt, conv, chat, kc>>

\* POST /decryption-failure served: the record is created and 200 answered, or
\* the create rejects and 500 is answered; the client goes on either way
ReportDecryptionFailure(d) ==
    /\ dec[d].pc = "report"
    /\ auditLog' = AuditLogCreate(AuditEntry("MESSAGE_DECRYPTION_FAILED", dec[d].user, "ERROR", d))
    /\ dec' = [dec EXCEPT ![d] = [@ EXCEPT !.pc = "done", !.reportStatus = Reply(200, TRUE)]]
    /\ UNCHANGED <<kxVars, msgVars, drv, auditUp, gcm, sgn, keys, rt, conv, chat, kc>>

\* the report does not reach the server; the inner catch logs it to the console
ReportLost(d) ==
    /\ dec[d].pc = "report"
    /\ dec' = [dec EXCEPT ![d] = [@ EXCEPT !.pc = "done"]]
    /\ UNCHANGED <<kxVars, msgVars, drv, auditLog, auditUp, gcm, sgn, keys, rt, conv, chat, kc>>

NextDecrypt ==
    \/ \E u \in {"u1", "u2"}, message \in ReceivedMessages, sessionKey \in {0, ConversationKey, OtherKey} :
           DecryptAndDisplay(u, message, sessionKey)
    \/ \E d \in DecIds : ReportDecryptionFailure(d)
    \/ \E d \in DecIds : ReportLost(d)
    \/ AuditDown
    \/ AuditBack

SpecDecrypt == Init /\ [][NextDecrypt]_vars

----------------------------------------------------------------------------
(* signData and verifySignature, with what can happen to the signature, the *)
(* payload and the key between the two                                       *)

\* the payloads: two letters, a lone surrogate, U+FFFD, and the text an
\* initiator signs
Payloads == {<<65>>, <<66>>, <<55357>>, <<Replacement>>, messageToSign("u2", GroupG, 0)}

\* a public key text that importKey rejects
NotAKey == "not a key"

InitSign ==
    /\ InitKx
    /\ msgStore = <<>>
    /\ sendReqs = <<>>
    /\ drv = NoDerivation
    /\ auditLog = {}
    /\ auditUp = TRUE
    /\ dec = <<>>
    /\ gcm = NoGcm
    /\ keys = NoKeys
    /\ rt = NoRoundTrip
    /\ conv = <<>>
    /\ chat = NoChat
    /\ kc = NoConfirmation
    /\ \E data \in Payloads, privateKey \in KeyOwners :
           sgn = [pc |-> "signData", data |-> data, privateKey |-> privateKey, out |-> <<>>,
                  presented |-> <<>>, signature |-> <<>>, publicKey |-> "", result |-> Threw]

sgnRest == <<kxVars, msgVars, drv, auditLog, auditUp, dec, gcm, keys, rt, conv, chat, kc>>

SignData ==
    /\ sgn.pc = "signData"
    /\ sgn' = [sgn EXCEPT !.pc = "signed", !.out = signData(sgn.data, sgn.privateKey)]
    /\ UNCHANGED sgnRest

\* the signature as it was made, with a payload and a public key
Present(data, publicKey) ==
    /\ sgn.pc = "signed"
    /\ sgn' = [sgn EXCEPT !.pc = "verifySignature", !.presented = data, !.signature = sgn.out,
                          !.publicKey = publicKey]
    /\ UNCHANGED sgnRest

\* the signed payload and the signer's key, with one character of the
\* signature replaced
PresentReplaced(pos, how) ==
    /\ sgn.pc = "signed"
    /\ pos \in 1..Len(sgn.out)
    /\ sgn.out[pos] # Pad
    /\ sgn' = [sgn EXCEPT !.pc = "verifySignature", !.presented = sgn.data, !.publicKey = sgn.privateKey,
                          !.signature = Replaced(sgn.out, pos, how)]
    /\ UNCHANGED sgnRest

\* ... with the last n characters of the signature missing
PresentTruncated(n) ==
    /\ sgn.pc = "signed"
    /\ sgn' = [sgn EXCEPT !.pc = "verifySignature", !.presented = sgn.data, !.publicKey = sgn.privateKey,
                          !.signature = SubSeq(sgn.out, 1, Len(sgn.out) - n)]
    /\ UNCHANGED sgnRest

\* ... with white space added to the signature (a line break)
PresentSpaced ==
    /\ sgn.pc = "signed"
    /\ sgn' = [sgn EXCEPT !.pc = "verifySignature", !.presented = sgn.data, !.publicKey = sgn.privateKey,
                          !.signature = Append(sgn.out, Space)]
    /\ UNCHANGED sgnRest

VerifySignature ==
    /\ sgn.pc = "verifySignature"
    /\ sgn' = [sgn EXCEPT !.pc = "done", !.result = verifySignature(sgn.presented, sgn.signature, sgn.publicKey)]
    /\ UNCHANGED sgnRest

MaxSignatureLength == 24
MaxTruncated == 3

NextSign ==
    \/ SignData
    \/ \E data \in Payloads, publicKey \in KeyOwners \cup {NotAKey} : Present(data, publicKey)
    \/ \E pos \in 1..MaxSignatureLength, how \in {"next", "bit"} : PresentReplaced(pos, how)
    \/ \E n \in 1..MaxTruncated : PresentTruncated(n)
    \/ PresentSpaced
    \/ VerifySignature

SpecSign == InitSign /\ [][NextSign]_vars

----------------------------------------------------------------------------
(* Key material: handleSubmit of the Register component with POST            *)
(* /auth/register, and the requests of startKeyExchange and                  *)
(* completeKeyExchange with what the server stores of them.  One step is one *)
(* request together with its answer.                                         *)

MaxRequests == 5

\* 'password' and 'pw'
Passwords == {<<112, 97, 115, 115, 119, 111, 114, 100>>, <<112, 119>>}

MinPasswordLength == 8
saltRounds == 12

\* 'RSA', and String(2048)
RsaName == <<82, 83, 65>>
RsaKeySize == 2048

\* bcrypt.hash: '$2b$', the cost, '$', and a digest of the password
bcryptHash(password, cost) ==
    <<36, 50, 98, 36>> \o Decimal(cost) \o <<36>> \o [i \in 1..Len(password) |-> (password[i] * 31 + i) % 64]

\* AuthContext register: the body of POST /auth/register
RegisterBody(name, password, publicKey, keyAlgorithm, keySize) ==
    [username |-> name, password |-> password, publicKey |-> publicKey,
     keyAlgorithm |-> keyAlgorithm, keySize |-> keySize]

\* handleSubmit: the call of register
registerCall_privateKey(name, password, keyPair, keyAlgorithm, keySize) ==
    RegisterBody(name, password, keyPair.privateKey, keyAlgorithm, keySize)

registerCall(name, password, keyPair, keyAlgorithm, keySize) ==
    RegisterBody(name, password, keyPair.publicKey, keyAlgorithm, keySize)

\* POST /auth/register : status code
RegisterStatus(body) ==
    IF body.username = NoText \/ body.password = NoText \/ body.publicKey = NoText THEN 400
    ELSE IF Len(body.password) < MinPasswordLength THEN 400
    ELSE IF \E i \in 1..Len(keys.users) : keys.users[i].username = body.username THEN 400
    ELSE 201

\* new User({...})
NewUser(body) ==
    [username |-> body.username, passwordHash |-> bcryptHash(body.password, saltRounds),
     publicKey |-> body.publicKey,
     keyAlgorithm |-> IF body.keyAlgorithm = NoText THEN RsaName ELSE body.keyAlgorithm,
     keySize |-> IF body.keySize = NoText THEN Decimal(RsaKeySize) ELSE body.keySize]

\* handleSubmit returns at once for a password shorter than 8.  Otherwise:
\* storePrivateKey(username, privateKey), a put under the id username, then
\* register; deletePrivateKey(username) when the registration failed
HandleSubmit(u, password) ==
    LET keyPair == generateRSAKeyPair(u)
        body == registerCall(CodeUnitsOf(username(u)), password, keyPair, RsaName, Decimal(RsaKeySize))
        status == RegisterStatus(body)
    IN  /\ Len(password) >= MinPasswordLength
        /\ Len(keys.requests) < MaxRequests
        /\ keys' = [keys EXCEPT
               !.indexedDB[u] = IF status = 201 THEN keyPair.privateKey ELSE NoText,
               !.requests = Append(@, [route |-> "/auth/register", body |-> body]),
               !.users = IF status = 201 THEN Append(@, NewUser(body)) ELSE @]
        /\ UNCHANGED <<kxVars, msgVars, drv, auditLog, auditUp, dec, gcm, sgn, rt, conv, chat, kc>>

Registered(u) == \E i \in 1..Len(keys.users) : keys.users[i].username = CodeUnitsOf(username(u))

\* initiateKeyExchange with the key pairs as exported texts
initiateKeyExchangeData(responderId, myPrivateKey, k, timestamp) ==
    LET ecdhKeyPair == generateECCKeyPair(k)
        signed == initiateKeyExchange(responderId, importSigningKey(myPrivateKey), k, timestamp)
    IN  [initiatorPublicKey |-> ecdhKeyPair.publicKey,
         initiatorSignature |-> signed.initiatorSignature,
         ecdhKeyPair |-> ecdhKeyPair]

\* respondToKeyExchange with the key pairs as exported texts
respondToKeyExchangeData(initiatorPublicKey, initiatorSignature, initiatorUsername, myPrivateKey, k, timestamp) ==
    LET ecdhKeyPair == generateECCKeyPair(k)
        signed == respondToKeyExchange(initiatorPublicKey, initiatorSignature, initiatorUsername,
                                       importSigningKey(myPrivateKey), k, timestamp)
    IN  [responderPublicKey |-> ecdhKeyPair.publicKey,
         responderSignature |-> signed.responderSignature,
         ecdhKeyPair |-> ecdhKeyPair]

\* startKeyExchange: the body of POST /key-exchange/initiate
InitiateBody_privateKey(userId, keyExchangeData) ==
    [responderId |-> CodeUnitsOf(userId),
     initiatorPublicKey |-> keyExchangeData.ecdhKeyPair.privateKey,
     initiatorSignature |-> keyExchangeData.initiatorSignature]

InitiateBody(userId, keyExchangeData) ==
    [responderId |-> CodeUnitsOf(userId),
     initiatorPublicKey |-> keyExchangeData.initiatorPublicKey,
     initiatorSignature |-> keyExchangeData.initiatorSignature]

\* completeKeyExchange: the body of POST /key-exchange/respond
RespondBody(keyExchangeId, responseData) ==
    [keyExchangeId |-> Decimal(keyExchangeId),
     responderPublicKey |-> responseData.responderPublicKey,
     responderSignature |-> responseData.responderSignature]

\* POST /initiate : new KeyExchange({...}) of the fields of the body
NewKeyExchangeDoc(initiator, body) ==
    [status |-> "pending",
     doc |-> [initiatorId |-> CodeUnitsOf(initiator), responderId |-> body.responderId,
              initiatorPublicKey |-> body.initiatorPublicKey,
              initiatorSignature |-> body.initiatorSignature,
              responderPublicKey |-> NoText, responderSignature |-> NoText]]

\* POST /respond : the fields of the body the handler assigns
RespondDoc(e, body) ==
    [status |-> "completed",
     doc |-> [e.doc EXCEPT !.responderPublicKey = body.responderPublicKey,
                           !.responderSignature = body.responderSignature]]

\* startKeyExchange of u for the conversation with peer, who is in the user list:
\* getPrivateKey, initiateKeyExchange, POST /initiate (201), localStorage.setItem
KeysStartKeyExchange(u, peer) ==
    LET k == keys.generated + 1
        keyExchangeData == initiateKeyExchangeData(peer, keys.indexedDB[u], k, now)
        body == InitiateBody(peer, keyExchangeData)
    IN  /\ Len(keys.requests) < MaxRequests
        /\ k <= MaxKeyPairs
        /\ u # peer
        /\ Registered(u)
        /\ Registered(peer)
        /\ keys.indexedDB[u] # NoText
        /\ keys' = [keys EXCEPT
               !.generated = k,
               !.requests = Append(@, [route |-> "/key-exchange/initiate", body |-> body]),
               !.exchanges = Append(@, NewKeyExchangeDoc(u, body)),
               !.ecdhStored[u] = keyExchangeData.ecdhKeyPair.privateKey]
        /\ UNCHANGED <<kxVars, msgVars, drv, auditLog, auditUp, dec, gcm, sgn, rt, conv, chat, kc>>

\* completeKeyExchange of u for the exchange i addressed to u: getPrivateKey,
\* respondToKeyExchange, localStorage.setItem, POST /respond (200 on a pending
\* record, 400 on a completed one)
KeysCompleteKeyExchange(u, i) ==
    LET k == keys.generated + 1
        e == keys.exchanges[i]
        initiator == CHOOSE v \in KeyUsers : CodeUnitsOf(v) = e.doc.initiatorId
        responseData == respondToKeyExchangeData(e.doc.initiatorPublicKey, e.doc.initiatorSignature,
                                                 username(initiator), keys.indexedDB[u], k, now)
        body == RespondBody(i, responseData)
    IN  /\ Len(keys.requests) < MaxRequests
        /\ k <= MaxKeyPairs
        /\ e.doc.responderId = CodeUnitsOf(u)
        /\ keys.indexedDB[u] # NoText
        /\ keys' = [keys EXCEPT
               !.generated = k,
               !.requests = Append(@, [route |-> "/key-exchange/respond", body |-> body]),
               !.exchanges[i] = IF e.status = "pending" THEN RespondDoc(e, body) ELSE e,
               !.ecdhStored[u] = responseData.ecdhKeyPair.privateKey]
        /\ UNCHANGED <<kxVars, msgVars, drv, auditLog, auditUp, dec, gcm, sgn, rt, conv, chat, kc>>

NextKeys ==
    \/ \E u \in KeyUsers, password \in Passwords : HandleSubmit(u, password)
    \/ \E u \in KeyUsers, peer \in KeyUsers : KeysStartKeyExchange(u, peer)
    \/ \E u \in KeyUsers : \E i \in 1..Len(keys.exchanges) : KeysCompleteKeyExchange(u, i)

SpecKeys == Init /\ [][NextKeys]_vars

----------------------------------------------------------------------------
(* One exchange between the Chat clients of two users, step by step: the     *)
(* initiator signs, the server creates the record, the responder signs, the  *)
(* server completes the record.  Each side reads its own clock when it acts, *)
(* and the clock may advance between two steps.  The record carries the      *)
(* createdAt and updatedAt that the schema option timestamps adds.           *)

InitRoundTrip ==
    /\ InitKx
    /\ msgStore = <<>>
    /\ sendReqs = <<>>
    /\ drv = NoDerivation
    /\ auditLog = {}
    /\ auditUp = TRUE
    /\ dec = <<>>
    /\ gcm = NoGcm
    /\ sgn = NoSgn
    /\ keys = NoKeys
    /\ conv = <<>>
    /\ chat = NoChat
    /\ kc = NoConfirmation
    /\ \E initiator \in Users, responder \in Users, a \in 1..MaxKeyPairs, b \in 1..MaxKeyPairs :
           /\ initiator # responder
           /\ a # b
           /\ rt = [pc |-> "initiateKeyExchange", initiator |-> initiator, responder |-> responder,
                    a |-> a, b |-> b, body |-> NoStored, record |-> NoExchange,
                    createdAt |-> 0, updatedAt |-> 0]

rtRest == <<kxVars, msgVars, drv, auditLog, auditUp, dec, gcm, sgn, keys, conv, chat, kc>>

\* startKeyExchange: initiateKeyExchange reads Date.now() of the initiator and signs
RtInitiateKeyExchange ==
    /\ rt.pc = "initiateKeyExchange"
    /\ rt' = [rt EXCEPT !.pc = "initiate",
                        !.body = initiateKeyExchange(rt.responder, rt.initiator, rt.a, now)]
    /\ UNCHANGED rtRest

\* POST /initiate: the record is created with the Date.now() of the server
RtInitiate ==
    /\ rt.pc = "initiate"
    /\ rt' = [rt EXCEPT !.pc = "respondToKeyExchange",
                        !.body = NoStored,
                        !.record = populate(NewKeyExchange(1, rt.initiator, rt.responder,
                                       rt.body.initiatorPublicKey, rt.body.initiatorSignature)),
                        !.createdAt = now,
                        !.updatedAt = now]
    /\ UNCHANGED rtRest

\* completeKeyExchange on the record GET /pending returned: respondToKeyExchange
\* reads Date.now() of the responder and signs
RtRespondToKeyExchange ==
    /\ rt.pc = "respondToKeyExchange"
    /\ rt.record.expiresAt > now
    /\ rt' = [rt EXCEPT !.pc = "respond",
                        !.body = respondToKeyExchange(rt.record.initiatorPublicKey, rt.record.initiatorSignature,
                                     dot_username(rt.record, rt.record.initiatorId), rt.responder, rt.b, now)]
    /\ UNCHANGED rtRest

\* POST /respond: the record is completed and saved
RtRespond ==
    /\ rt.pc = "respond"
    /\ rt' = [rt EXCEPT !.pc = "done",
                        !.body = NoStored,
                        !.record = RespondUpdate(@, rt.body.responderPublicKey, rt.body.responderSignature),
                        !.updatedAt = now]
    /\ UNCHANGED rtRest

NextRoundTrip ==
    \/ RtInitiateKeyExchange
    \/ RtInitiate
    \/ RtRespondToKeyExchange
    \/ RtRespond
    \/ Tick

SpecRoundTrip == InitRoundTrip /\ [][NextRoundTrip]_vars

----------------------------------------------------------------------------
(* utils/keyExchange.js: one key confirmation.  The peer generates it with  *)
(* the session key it holds, a text reaches the verifier, and the verifier  *)
(* checks it with its own session key.  Date.now() is read at each of the   *)
(* two calls; the clock may advance in between.                             *)

MaxClock == 2

ConfirmationNames == {"alice", "bob"}

\* the session keys of the two sides: the same exchange, or another one
ConfirmationKeys == {deriveSessionKey(1, PublicKeyOf(2), "u1", "u2"), deriveSessionKey(1, PublicKeyOf(3), "u1", "u2")}

InitConfirmation ==
    /\ InitKx
    /\ msgStore = <<>>
    /\ sendReqs = <<>>
    /\ drv = NoDerivation
    /\ auditLog = {}
    /\ auditUp = TRUE
    /\ dec = <<>>
    /\ gcm = NoGcm
    /\ sgn = NoSgn
    /\ keys = NoKeys
    /\ rt = NoRoundTrip
    /\ conv = <<>>
    /\ chat = NoChat
    /\ \E me \in ConfirmationNames, peer \in ConfirmationNames, myKey \in ConfirmationKeys, peerKey \in ConfirmationKeys :
           /\ me # peer
           /\ kc = [pc |-> "generate", me |-> me, peer |-> peer, myKey |-> myKey, peerKey |-> peerKey,
                    clock |-> 0, generated |-> NoText, received |-> NoText, result |-> FALSE]

kcRest == <<kxVars, msgVars, drv, auditLog, auditUp, dec, gcm, sgn, keys, rt, conv, chat>>

\* a millisecond passes
ClockTick ==
    /\ kc.pc \in {"generate", "send", "verify"}
    /\ kc.clock < MaxClock
    /\ kc' = [kc EXCEPT !.clock = @ + 1]
    /\ UNCHANGED kcRest

\* the peer calls generateKeyConfirmation(sessionKey, myUsername, theirUsername)
GenerateConfirmation ==
    /\ kc.pc = "generate"
    /\ kc' = [kc EXCEPT !.pc = "send",
                        !.generated = generateKeyConfirmation(kc.peerKey, kc.peer, kc.me, kc.clock)]
    /\ UNCHANGED kcRest

\* a text reaches the verifier: the one the peer generated, or another one
ReceiveConfirmation(genuine) ==
    /\ kc.pc = "send"
    /\ kc' = [kc EXCEPT !.pc = "verify",
                        !.received = IF genuine THEN kc.generated ELSE hashData(kc.generated)]
    /\ UNCHANGED kcRest

\* the verifier calls verifyKeyConfirmation(confirmation, sessionKey, myUsername, theirUsername)
VerifyConfirmation ==
    /\ kc.pc = "verify"
    /\ kc' = [kc EXCEPT !.pc = "verified",
                        !.result = verifyKeyConfirmation(kc.received, kc.myKey, kc.me, kc.peer, kc.clock)]
    /\ UNCHANGED kcRest

NextConfirmation ==
    \/ ClockTick
    \/ GenerateConfirmation
    \/ \E genuine \in BOOLEAN : ReceiveConfirmation(genuine)
    \/ VerifyConfirmation

SpecConfirmation == InitConfirmation /\ [][NextConfirmation]_vars

----------------------------------------------------------------------------
(* Properties *)

HoldsSessionKey(r) == runs[r].mounted /\ runs[r].keyExchangeStatus = "completed"

\* the mounted Chat components of two users, each opened on the other
Facing(ra, rb) ==
    /\ ra = Current(runs[ra].user)
    /\ rb = Current(runs[rb].user)
    /\ runs[ra].user # runs[rb].user
    /\ runs[ra].peer = runs[rb].user
    /\ runs[rb].peer = runs[ra].user

\* C1: whenever the Chat clients of two users both hold a session key for their
\* conversation, the two session keys are equal.
C1_SessionKeysAgree ==
    \A ra \in RunIds, rb \in RunIds :
        (Facing(ra, rb) /\ HoldsSessionKey(ra) /\ HoldsSessionKey(rb))
            => runs[ra].sessionKey = runs[rb].sessionKey

\* C2: the session key the initiator derives from its private key and the
\* responder's public key equals the one the responder derives from its private
\* key and the initiator's public key, for the same (initiatorId, responderId).
C2_DerivationsAgree ==
    (drv.byInitiator # NoSessionKey /\ drv.byResponder # NoSessionKey)
        => drv.byInitiator = drv.byResponder

C2_Witness ==
    /\ drv.byInitiator # NoSessionKey
    /\ drv.byResponder # NoSessionKey
    /\ drv.a # drv.b

\* C3: of two respond requests for the same exchange, at most one is answered
\* with success (the other is rejected with 400).
C3_OneResponderWins ==
    \A r1 \in RunIds, r2 \in RunIds :
        (r1 # r2 /\ runs[r1].kx.id # 0 /\ runs[r1].kx.id = runs[r2].kx.id)
            => ~(runs[r1].respStatus = 200 /\ runs[r2].respStatus = 200)

\* C4: no two stored messages have the same nonce.
C4_NonceUnique ==
    \A i \in 1..Len(msgStore), j \in 1..Len(msgStore) :
        i # j => msgStore[i].nonce # msgStore[j].nonce

\* two sends of one nonce both passed the findOne check, and the index decided
C4_Witness ==
    \E i \in SendIds, j \in SendIds :
        /\ sendReqs[i].nonce = sendReqs[j].nonce
        /\ sendReqs[i].status = 201
        /\ sendReqs[j].status = 400
        /\ sendReqs[j].rejectedBy = "index"

LaterDuplicate(j) == \E i \in sendReqs[j].after : sendReqs[i].nonce = sendReqs[j].nonce

LaterDuplicatesRejected ==
    \A j \in SendIds : (sendReqs[j].pc = "done" /\ LaterDuplicate(j)) => sendReqs[j].status = 400

StoredMessagesStay ==
    \A i \in 1..Len(msgStore) : Len(msgStore') >= i /\ msgStore'[i] = msgStore[i]

RawIds == 1..Len(rawLog)

\* C6: a respond request that arrives after the record's expiresAt is rejected
\* and leaves the record unchanged.
C6_ExpiredRespondRejected ==
    \A k \in RawIds :
        (/\ rawLog[k].kind = "respond"
         /\ rawLog[k].before.status # "none"
         /\ rawLog[k].at > rawLog[k].before.expiresAt)
            => (rawLog[k].status # 200 /\ rawLog[k].after = rawLog[k].before)

Active(i) == kxStore[i].expiresAt > now /\ kxStore[i].status \in {"pending", "completed"}

\* C7: for every unordered pair of users at most one record is not expired and
\* pending or completed.
C7_OneActiveExchangePerPair ==
    \A i \in KxIds, j \in KxIds :
        (/\ Active(i) /\ Active(j)
         /\ {kxStore[i].initiatorId, kxStore[i].responderId} = {kxStore[j].initiatorId, kxStore[j].responderId})
            => i = j

NotTheResponder(k) ==
    /\ rawLog[k].kind = "respond"
    /\ rawLog[k].before.status # "none"
    /\ rawLog[k].caller # rawLog[k].before.responderId

InitiatorSignatureValid(e) ==
    \E ts \in 0..MaxTime, who \in {e.responderId, username(e.responderId)} :
        verifySignature(messageToSign(who, e.initiatorPublicKey, ts), e.initiatorSignature, e.initiatorId) = Returned(TRUE)

RespondSent(r) ==
    \/ runs[r].pc \in {"respond_save", "getUpdated", "establishSessionKey"}
    \/ runs[r].respStatus # 0

DerivedFrom(r, i) == runs[r].sessionKey # NoSessionKey /\ runs[r].kx.id = i

\* C9: a client that has sent respond for an exchange, or derived a session key
\* from it as the responder, holds an exchange whose initiator signature verifies.
C9_RespondOnlyAfterVerify ==
    \A r \in RunIds :
        (runs[r].kx.id # 0 /\ kxStore[runs[r].kx.id].responderId = runs[r].user
            /\ (RespondSent(r) \/ DerivedFrom(r, runs[r].kx.id)))
            => InitiatorSignatureValid(kxStore[runs[r].kx.id])

\* the record carries a key its initiator signed for somebody else than its responder
SignedForAnother(e) ==
    \E ts \in 0..MaxTime, other \in Users \ {e.responderId} : \E who \in {other, username(other)} :
        verifySignature(messageToSign(who, e.initiatorPublicKey, ts), e.initiatorSignature, e.initiatorId) = Returned(TRUE)

\* C10: an exchange whose (public key, signature) pair was signed for another
\* recipient is never completed, and no client derives a session key from it.
C10_BoundToRecipient ==
    \A i \in 1..Len(kxStore) :
        SignedForAnother(kxStore[i])
            => (kxStore[i].responderPublicKey = 0 /\ \A r \in RunIds : ~DerivedFrom(r, i))

\* C11: a message whose timestamp is more than 5 minutes older than the time of
\* its admission is rejected and not stored.
C11_StaleRejected ==
    \A i \in SendIds :
        (sendReqs[i].pc = "done" /\ sendReqs[i].at - sendReqs[i].timestamp > FreshnessWindow)
            => (sendReqs[i].status # 201 /\ ~sendReqs[i].saved)

\* C12: the accepted messages of each sender->receiver direction have strictly
\* increasing sequence numbers in acceptance order.
C12_SequenceIncreasing ==
    \A i \in 1..Len(msgStore), j \in 1..Len(msgStore) :
        (/\ i < j
         /\ msgStore[i].senderId = msgStore[j].senderId
         /\ msgStore[i].receiverId = msgStore[j].receiverId)
            => msgStore[i].sequenceNumber < msgStore[j].sequenceNumber

MessageOf(i) ==
    {k \in 1..Len(msgStore) : /\ msgStore[k].nonce = sendReqs[i].nonce
                              /\ msgStore[k].senderId = sendReqs[i].caller
                              /\ msgStore[k].receiverId = sendReqs[i].receiverId
                              /\ msgStore[k].sequenceNumber = sendReqs[i].sequenceNumber}

RECURSIVE NoLoneSurrogate(_)
NoLoneSurrogate(str) ==
    IF str = <<>> THEN TRUE
    ELSE IF IsHighSurrogate(Head(str))
         THEN Len(str) >= 2 /\ IsLowSurrogate(str[2]) /\ NoLoneSurrogate(Tail(Tail(str)))
    ELSE ~IsLowSurrogate(Head(str)) /\ NoLoneSurrogate(Tail(str))

\* a string of whole code points that does not begin with a byte order mark
WellFormed(str) == NoLoneSurrogate(str) /\ (str = <<>> \/ Head(str) # ByteOrderMark)

Untouched == gcm.pc = "done" /\ gcm.input = gcm.out /\ gcm.decKey = gcm.key

\* C14 (as stated): for every plaintext P and key K,
\* decryptMessage(encryptMessage(P, K), K) returns P.
C14_RoundTrip == Untouched => gcm.result = Returned(gcm.plaintext)

\* C14 (amended): for every key K and every plaintext P that is a string of whole
\* code points not beginning with U+FEFF, decryptMessage(encryptMessage(P, K), K)
\* returns P.
C14_RoundTripWellFormed ==
    (Untouched /\ WellFormed(gcm.plaintext)) => gcm.result = Returned(gcm.plaintext)

C14_Witness ==
    /\ Untouched
    /\ gcm.plaintext = <<55357, 56832>>
    /\ gcm.result = Returned(gcm.plaintext)

DecodedTriple(t) == [f \in TripleFields |-> base64ToArrayBuffer(t[f])]

WrongKeyFails == (gcm.input = gcm.out /\ gcm.decKey # gcm.key) => ~gcm.result.ok

Logged(eventType, ref) == \E e \in auditLog : e.eventType = eventType /\ e.ref = ref

\* C16: every failure of decryptMessage in the Chat client has its
\* MESSAGE_DECRYPTION_FAILED record in the audit log once the call has returned.
C16_FailureLogged ==
    \A d \in DecIds :
        (dec[d].pc = "done" /\ dec[d].failed) => Logged("MESSAGE_DECRYPTION_FAILED", d)

DuplicateRejected(i) == sendReqs[i].status = 400 /\ sendReqs[i].rejectedBy \in {"findOne", "index"}

\* C17: every send answered with the duplicate-nonce rejection has its
\* REPLAY_ATTACK_DETECTED record of severity CRITICAL in the audit log when the
\* answer is given, on the findOne path and on the duplicate-key path.
C17_ReplayLogged ==
    \A i \in SendIds :
        DuplicateRejected(i) =>
            \E e \in auditLog : /\ e.eventType = "REPLAY_ATTACK_DETECTED"
                                /\ e.severity = "CRITICAL"
                                /\ e.ref = i
                                /\ e.userId = sendReqs[i].caller

\* both paths taken, with the audit collection away at some moment before
C17_Witness ==
    /\ \E i \in SendIds : sendReqs[i].status = 400 /\ sendReqs[i].rejectedBy = "index"
    /\ \E i \in SendIds : sendReqs[i].status \in {0, 500} /\ sendReqs[i].pc = "done"

\* C18: a request whose message or exchange record was stored is answered with
\* success, whether or not the audit record could be written.
C18_StoredMeansSuccess ==
    /\ \A i \in SendIds : (sendReqs[i].pc = "done" /\ sendReqs[i].saved) => sendReqs[i].status = 201
    /\ \A k \in RawIds : rawLog[k].after # rawLog[k].before => rawLog[k].status \in {200, 201}

\* the text, the payload or the key given to verifySignature is not the one of
\* signData
TextMismatch ==
    \/ sgn.signature # sgn.out
    \/ sgn.presented # sgn.data
    \/ sgn.publicKey # sgn.privateKey

\* the signature bytes, the payload bytes or the key given to verifySignature
\* are not those of signData
ByteMismatch ==
    \/ base64ToArrayBuffer(sgn.signature) # base64ToArrayBuffer(sgn.out)
    \/ stringToArrayBuffer(sgn.presented) # stringToArrayBuffer(sgn.data)
    \/ sgn.publicKey # sgn.privateKey

\* C19 (as stated): verifySignature never throws, and returns false unless it
\* is given the signature text of signData, the signed payload and the public
\* key of the signing private key.
C19_FalseOnAnyMismatch ==
    sgn.pc = "done" =>
        /\ sgn.result.ok
        /\ TextMismatch => sgn.result = Returned(FALSE)

\* C19 (amended): verifySignature never throws, and returns false unless it is
\* given a text that decodes to the signature bytes of signData, a payload with
\* the UTF-8 bytes of the signed payload, and the public key of the signing
\* private key.
C19_FalseOnByteMismatch ==
    sgn.pc = "done" =>
        /\ sgn.result.ok
        /\ ByteMismatch => sgn.result = Returned(FALSE)

\* verifySignature has answered false where atob or importKey threw
C19_Witness ==
    /\ sgn.pc = "done"
    /\ ByteMismatch
    /\ verifySignatureTry(sgn.presented, sgn.signature, sgn.publicKey) = Threw
    /\ sgn.result = Returned(FALSE)

\* a respond request by the record's responder that finds the record no longer
\* pending
RespondAgain(k) ==
    /\ rawLog[k].kind = "respond"
    /\ rawLog[k].before.status \notin {"none", "pending"}
    /\ rawLog[k].caller = rawLog[k].before.responderId

\* C20: a respond request by the designated responder that finds the record
\* with a status other than 'pending' is answered 400 and leaves the record as
\* it was.
C20_RespondAgainRejected ==
    \A k \in RawIds : RespondAgain(k) => (rawLog[k].status = 400 /\ rawLog[k].after = rawLog[k].before)

\* the responder's second respond found the record completed by the first,
\* made with the outside key pair, and left its fields
C20_Witness ==
    \E j \in RawIds, k \in RawIds :
        /\ j < k
        /\ rawLog[j].kind = "respond" /\ rawLog[j].status = 200 /\ rawLog[j].id = rawLog[k].id
        /\ rawLog[j].after.responderPublicKey = PublicKeyOf(OutsideKey)
        /\ RespondAgain(k)
        /\ rawLog[k].status = 400
        /\ rawLog[k].after.status = "completed"
        /\ rawLog[k].after.responderPublicKey = rawLog[j].after.responderPublicKey
        /\ rawLog[k].after.responderSignature = rawLog[j].after.responderSignature

\* the responder fields of a record go together with its status
ResponderFieldsPaired(e) ==
    \/ e.status = "pending" /\ e.responderPublicKey = 0 /\ e.responderSignature = NoSignature
    \/ e.status = "completed" /\ e.responderPublicKey # 0 /\ e.responderSignature # NoSignature

\* the responder fields of record i, once set, are the same after the step
ResponderFieldsKept(i) ==
    kxStore[i].responderPublicKey # 0 =>
        /\ kxStore'[i].responderPublicKey = kxStore[i].responderPublicKey
        /\ kxStore'[i].responderSignature = kxStore[i].responderSignature

\* C21: every exchange record has its responder key and signature both null
\* with status 'pending' or both set with status 'completed', and once they are
\* set no step changes them.
C21_ResponderFieldsSetOnce ==
    /\ [](\A i \in 1..Len(kxStore) : ResponderFieldsPaired(kxStore[i]))
    /\ [][\A i \in 1..Len(kxStore) : ResponderFieldsKept(i)]_vars

\* the record an accepted initiate creates
CreatedByInitiate(k) ==
    /\ rawLog[k].status = 201
    /\ rawLog[k].created = 1
    /\ rawLog[k].after.status = "pending"
    /\ rawLog[k].after.initiatorId = rawLog[k].caller
    /\ rawLog[k].after.responderId = rawLog[k].to
    /\ rawLog[k].after.responderPublicKey = 0
    /\ rawLog[k].after.responderSignature = NoSignature

\* C22: an initiate request whose responderId is not a user of the directory
\* is answered 404 and creates no record; one whose responderId is a user
\* creates exactly one record, pending, with the caller as initiator and null
\* responder fields.
C22_InitiateUnknownResponder ==
    \A k \in RawIds :
        rawLog[k].kind = "initiate" =>
            IF rawLog[k].to \in Users THEN CreatedByInitiate(k)
            ELSE rawLog[k].status = 404 /\ rawLog[k].created = 0

ConfirmOf(k) == rawLog[k].kind = "confirm" /\ rawLog[k].before.status # "none"

IsParty(k) == rawLog[k].caller \in {rawLog[k].before.initiatorId, rawLog[k].before.responderId}

\* C23: a confirm request from the initiator or the responder of a record is
\* accepted and changes nothing of the record but keyConfirmation; one from
\* anybody else is answered 403 and leaves the record as it was.
C23_ConfirmFrame ==
    \A k \in RawIds :
        ConfirmOf(k) =>
            IF IsParty(k)
            THEN /\ rawLog[k].status = 200
                 /\ rawLog[k].after = [rawLog[k].before EXCEPT !.keyConfirmation = rawLog[k].after.keyConfirmation]
            ELSE /\ rawLog[k].status = 403
                 /\ rawLog[k].after = rawLog[k].before

\* a completed record has taken the confirmation of its initiator and kept its
\* other fields
C23_Witness ==
    \E j \in RawIds :
        /\ ConfirmOf(j)
        /\ rawLog[j].caller = rawLog[j].before.initiatorId
        /\ rawLog[j].before.status = "completed"
        /\ rawLog[j].before.keyConfirmation = 0
        /\ rawLog[j].after.status = "completed"
        /\ rawLog[j].after.responderPublicKey = rawLog[j].before.responderPublicKey
        /\ rawLog[j].after.keyConfirmation # 0

\* the stored records in which u is a party and that have not expired
LiveRecordsOf(u) ==
    {i \in KxIds : u \in {kxStore[i].initiatorId, kxStore[i].responderId} /\ kxStore[i].expiresAt > now}

ReturnedIds(u) == {Pending(u)[n].id : n \in 1..Len(Pending(u))}

\* C24: GET /pending for u returns the records in which u is initiator or
\* responder and whose expiresAt is later than now, each once, newest first.
C24_PendingExact ==
    \A u \in Users :
        /\ ReturnedIds(u) = LiveRecordsOf(u)
        /\ Len(Pending(u)) = Cardinality(LiveRecordsOf(u))
        /\ \A m \in 1..Len(Pending(u)), n \in 1..Len(Pending(u)) :
               m < n => Pending(u)[m].timestamp >= Pending(u)[n].timestamp

\* u1 has an expired record that is still stored and a newer one that is not
\* expired, u3 has none: GET /pending returns the newer one to u1, nothing to u3
C24_Witness ==
    /\ Len(kxStore) = 2
    /\ KxIds = {1, 2}
    /\ "u1" \in {kxStore[1].initiatorId, kxStore[1].responderId}
    /\ "u1" \in {kxStore[2].initiatorId, kxStore[2].responderId}
    /\ kxStore[1].expiresAt <= now
    /\ Len(Pending("u1")) = 1
    /\ Pending("u1")[1].id = 2
    /\ Pending("u3") = <<>>

FieldsOf(r) == {r[f] : f \in DOMAIN r}

\* C25: no private key, long-term or ephemeral, is a field of a request sent to
\* the server (register, initiate, respond) or of a document the server stores.
C25_PrivateKeysStayOnClient ==
    /\ \A i \in 1..Len(keys.requests) : FieldsOf(keys.requests[i].body) \cap PrivateKeyTexts = {}
    /\ \A i \in 1..Len(keys.users) : FieldsOf(keys.users[i]) \cap PrivateKeyTexts = {}
    /\ \A i \in 1..Len(keys.exchanges) : FieldsOf(keys.exchanges[i].doc) \cap PrivateKeyTexts = {}

\* both users hold their long-term private key and an ephemeral one, and an
\* exchange between them is completed
C25_Witness ==
    /\ \A u \in KeyUsers : keys.indexedDB[u] \in PrivateKeyTexts /\ keys.ecdhStored[u] \in PrivateKeyTexts
    /\ \E i \in 1..Len(keys.exchanges) : keys.exchanges[i].status = "completed"

\* a request answered Unauthorized (403 of respond or confirm) or
\* IdentityNotFound (404 of initiate for a responder nobody is)
Rejection(k) ==
    \/ rawLog[k].kind = "initiate" /\ rawLog[k].status = 404
    \/ rawLog[k].kind \in {"respond", "confirm"} /\ rawLog[k].status = 403

\* C26: every request rejected as Unauthorized or IdentityNotFound has an audit
\* record of its caller, of a severity below CRITICAL.
C26_RejectionsAudited ==
    \A k \in RawIds :
        Rejection(k) =>
            \E a \in auditLog : /\ a.userId = rawLog[k].caller
                                /\ a.ref = rawLog[k].id
                                /\ a.severity \in {"INFO", "WARNING"}

\* the records of the conversation of u and p that the database holds
RecordsOf(u, p) == {i \in KxIds : InvolvesBoth(kxStore[i], u, p)}

\* C27: when a client holds a keyExchange_<peer> entry and the one record of the
\* conversation is completed, the stored private key belongs to the public key
\* the record holds for that client, once every started run has returned.
C27_StoredKeyMatchesRecord ==
    \A c \in ChatPairs :
        LET stored == localStorage[c]
            S == RecordsOf(c[1], c[2])
        IN  (/\ \A r \in RunIds : runs[r].pc = "done"
             /\ stored # NoStored
             /\ Cardinality(S) = 1 /\ kxDeleted = {}
             /\ kxStore[Newest(S)].status = "completed")
                => PublicKeyOf(stored.ecdhPrivateKey) =
                       IF kxStore[Newest(S)].initiatorId = c[1]
                       THEN kxStore[Newest(S)].initiatorPublicKey
                       ELSE kxStore[Newest(S)].responderPublicKey

\* the responder's signature of the record verifies with the responder's
\* long-term public key over the initiator (by id or by name), the responder's
\* public key of the record, and some timestamp
ResponderSignatureValid(e) ==
    \E ts \in 0..MaxTime : \E who \in {e.initiatorId, username(e.initiatorId)} :
        verifySignature(messageToSign(who, e.responderPublicKey, ts), e.responderSignature, e.responderId) = Returned(TRUE)

\* C28: a client that has derived a session key as the initiator of an exchange
\* holds an exchange whose responder signature verifies.
C28_DeriveOnlyAfterVerify ==
    \A r \in RunIds :
        (runs[r].kx.id # 0 /\ kxStore[runs[r].kx.id].initiatorId = runs[r].user
            /\ DerivedFrom(r, runs[r].kx.id))
            => ResponderSignatureValid(kxStore[runs[r].kx.id])

\* the forms in which the directory names a user, and the times a record carries
IdentityForms(u) == {user_id(u), username(u)}
RecordTimes == {rt.record.timestamp, rt.record.expiresAt, rt.createdAt, rt.updatedAt}

\* the payload of the signature can be rebuilt from the record and the
\* directory, and the signature verifies over it with the signer's public key
Rebuilds(signature, signer, peer, publicKey) ==
    \E who \in IdentityForms(peer), ts \in RecordTimes :
        verifySignature(messageToSign(who, publicKey, ts), signature, signer) = Returned(TRUE)

\* C29: for a completed exchange between two Chat clients, each signature
\* verifies over a payload rebuilt from the peer's identity, the public key of
\* the record and a time of the record.
C29_SignVerifyRoundTrip ==
    rt.pc = "done" =>
        /\ Rebuilds(rt.record.initiatorSignature, rt.record.initiatorId, rt.record.responderId,
                    rt.record.initiatorPublicKey)
        /\ Rebuilds(rt.record.responderSignature, rt.record.responderId, rt.record.initiatorId,
                    rt.record.responderPublicKey)

\* C30: whenever the mounted Chat client of the receiver of a stored message
\* holds a session key for the conversation, it is the key the message was
\* encrypted under (the messages are sent while the receiver holds that key).
C30_MessagesStayDecryptable ==
    \A m \in 1..Len(conv), r \in RunIds :
        (/\ runs[r].user = conv[m].receiverId
         /\ runs[r].peer = conv[m].senderId
         /\ runs[r].mounted
         /\ runs[r].sessionKey # NoSessionKey)
            => runs[r].sessionKey = conv[m].encryptedUnder

\* the first mount of the initiator is still mounted, shows 'pending', and the
\* record it created has been completed by the responder
AwaitingCompletion ==
    /\ Len(runs) >= 1
    /\ runs[1].mounted
    /\ runs[1].keyExchangeStatus = "pending"
    /\ runs[1].kx.id \in KxIds
    /\ kxStore[runs[1].kx.id].initiatorId = runs[1].user
    /\ kxStore[runs[1].kx.id].status = "completed"

\* that mount shows 'completed' and holds the session key, or the user has
\* left it
CompletedOrLeft ==
    /\ Len(runs) >= 1
    /\ \/ ~runs[1].mounted
       \/ runs[1].keyExchangeStatus = "completed" /\ runs[1].sessionKey # NoSessionKey

\* C31: once the responder's respond has succeeded, the initiator's mounted
\* client eventually shows 'completed' and holds the session key.
C31_CompletesAutomatically == AwaitingCompletion ~> CompletedOrLeft

\* C32: a sequence number the client posts after its messages were loaded is
\* greater than every sequence number of an earlier post that was accepted.
C32_SequenceNumbersIncrease ==
    \A i, j \in 1..Len(chat.posts) :
        (i < j /\ chat.posts[i].status = 201 /\ chat.posts[j].loaded)
            => chat.posts[j].sequenceNumber > chat.posts[i].sequenceNumber

\* C33: a mounted Chat client shows 'completed' (and holds the session key
\* that enables sending) only when a key confirmation has been stored for its
\* exchange.
C33_CompletedOnlyAfterConfirmation ==
    \A r \in RunIds :
        (runs[r].mounted /\ runs[r].keyExchangeStatus = "completed")
            => /\ runs[r].kx.id \in 1..Len(kxStore)
               /\ kxStore[runs[r].kx.id].keyConfirmation # 0

\* C35: a record whose keyConfirmation is set has status 'completed' and
\* carries the responder's public key and signature.
C35_ConfirmedOnlyWhenCompleted ==
    \A i \in 1..Len(kxStore) :
        kxStore[i].keyConfirmation # 0
            => /\ kxStore[i].status = "completed"
               /\ kxStore[i].responderPublicKey # 0
               /\ kxStore[i].responderSignature # NoSignature

\* C34: verifyKeyConfirmation returns true exactly when the text it is given
\* is the confirmation the peer generated and the peer generated it with the
\* session key the verifier holds.
C34_VerifiesPeerConfirmation ==
    kc.pc = "verified"
        => (kc.result <=> (kc.received = kc.generated /\ kc.peerKey = kc.myKey))

C37_StoredUnderAuthenticatedUser ==
    /\ \A m \in 1..Len(msgStore) :
           \E k \in 1..Len(sendReqs) :
               /\ sendReqs[k].stored = m
               /\ authenticateToken(sendReqs[k].token) = 0
               /\ msgStore[m].senderId = sendReqs[k].token.userId
    /\ \A i \in 1..Len(kxStore) :
           \E k \in 1..Len(rawLog) :
               /\ rawLog[k].stored = i
               /\ authenticateToken(rawLog[k].token) = 0
               /\ kxStore[i].initiatorId = rawLog[k].token.userId

C37_Witness ==
    /\ \E k \in 1..Len(sendReqs) :
           /\ sendReqs[k].stored # 0
           /\ sendReqs[k].body.senderId # sendReqs[k].token.userId
    /\ \E k \in 1..Len(rawLog) :
           /\ rawLog[k].stored # 0
           /\ rawLog[k].body.initiatorId # rawLog[k].token.userId

\* C38: every post to /messages/send was made while the client held a session
\* key, and a call of sendMessage without a session key posts nothing and
\* leaves the message list and the sequence number as they were.
C38_SendsOnlyWithSessionKey ==
    [][/\ \A k \in 1..Len(chat'.posts) : chat'.posts[k].sessionKey # NoSessionKey
       /\ (chat'.calls # chat.calls /\ chat.sessionKey = NoSessionKey)
              => /\ chat'.posts = chat.posts
                 /\ chat'.conversation = chat.conversation
                 /\ chat'.messages = chat.messages
                 /\ chat'.sequenceNumber = chat.sequenceNumber]_vars

C38_Witness ==
    /\ chat.calls > 0
    /\ chat.sessionKey = NoSessionKey
    /\ chat.error = "Key exchange not completed. Please wait..."
    /\ chat.posts = <<>>

\* C39: a registration the server rejects leaves the private keys stored in
\* the client's IndexedDB as they were before the attempt.
C39_RejectedRegistrationKeepsKeys ==
    [][(/\ Len(keys'.requests) = Len(keys.requests) + 1
        /\ keys'.requests[Len(keys'.requests)].route = "/auth/register"
        /\ keys'.users = keys.users)
           => keys'.indexedDB = keys.indexedDB]_vars

====
